---- MODULE Spec2Model ----
(***************************************************************************)
(* AutoSplit orchestrator (scripts/autosplit-pipeline.js): the six-stage   *)
(* pipeline, its checkpoint file, resume and the signal-guarded shutdown.  *)
(*                                                                         *)
(* One operating-system process is modelled at a time.  The disk survives  *)
(* from one process to the next; everything else is reset when a process   *)
(* starts.  Node runs a callback to completion: the signal handler can     *)
(* only run while runPipeline is suspended at an await, that is inside     *)
(* stages 1, 2 and 4 (STAGES[].async).                                     *)
(*                                                                         *)
(* Three specifications: Spec is the program with its signals and with     *)
(* --resume; SpecTamper adds files edited by hand between two processes;   *)
(* SpecCrash adds the process being killed inside saveCheckpoint (a kill   *)
(* of the process, not a loss of power: the code calls no fsync).          *)
(*                                                                         *)
(* Abstractions: timestamps and durations are left out (stage_results      *)
(* therefore carries no information beyond completed_stages); SHA-256 is   *)
(* a collision-free encoding of the serialized fields; the per-stage       *)
(* workers (ingester, profiler, router, extractor, segmenter, exporter,    *)
(* QC) are functions of a few attributes of the input PDF.                 *)
(***************************************************************************)
EXTENDS Integers, Sequences, FiniteSets, TLC

\* ------------------------------------------------------------------ bounds
MaxPdfs == 2        \* PDFs in a batch directory
MaxRuns == 3        \* processes started one after the other (1 fresh + resumes)

\* ------------------------------------------------------------- small values
Null == [null |-> TRUE]
Undefined == [undefined |-> TRUE]
Absent == [st |-> "absent"]

At(arr, i) == IF i \in DOMAIN arr THEN arr[i] ELSE Undefined

SelectTruthy(arr) == SelectSeq(arr, LAMBDA x : x # Null /\ x # Undefined)

Has(arr, x) == \E i \in DOMAIN arr : arr[i] = x

\* File names, listed in the order of Array.prototype.sort (code units).
Names == <<"a.PDF", "a.pdf", "b-page-1.pdf">>

Rank(n) == CHOOSE i \in DOMAIN Names : Names[i] = n

\* path.parse(name).name
BaseName(n) == IF n = "b-page-1.pdf" THEN "b-page-1" ELSE "a"

\* f.includes('-page-') on an output file name built from a base name
IncludesPage(base) == base = "b-page-1"

Dirs == {"out", "a", "b-page-1"}

Kinds == {"manifest", "profile", "classification", "route", "pageRoutes",
          "extracted", "segments"}

STAGES == <<1, 2, 3, 4, 5, 6>>

\* ---------------------------------------------------------------- inputs
\* srcMode/files: what detectSource returns.  The other fields describe the
\* PDFs and the machine: readable (ingestFile succeeds), hasPages (the
\* text extraction yields pages), degraded (some page needs OCR),
\* hasTesseract, qc (outcome of the quality gate), cls ("late": the stage-2
\* classification is unknown and stage 4.5 finds the type), l1 (stage 5.5
\* overrides the segment type).
SortedBatches ==
  { s \in UNION { [1..n -> {Names[i] : i \in DOMAIN Names}] : n \in 1..MaxPdfs } :
      \A i \in 1..(Len(s) - 1) : Rank(s[i]) < Rank(s[i + 1]) }

Inputs ==
  { r \in [ srcMode : {"single", "batch"}, files : SortedBatches,
            readable : BOOLEAN, hasPages : BOOLEAN, degraded : BOOLEAN,
            hasTesseract : BOOLEAN, qc : {"pass", "flag"},
            cls : {"known", "late"}, l1 : BOOLEAN ] :
      /\ (r.srcMode = "single" => Len(r.files) = 1)
      /\ (r.degraded => r.hasPages)
      /\ (~r.readable => ~r.hasPages /\ ~r.hasTesseract /\ r.qc = "pass"
                          /\ r.cls = "known" /\ ~r.l1)
      /\ (~r.hasPages => r.qc = "pass" /\ r.cls = "known" /\ ~r.l1) }

VARIABLES
  input,            \* the source and the machine, fixed for a behaviour
  disk,             \* [Dirs -> output directory contents]
  pc,               \* position of the running process
  mode,             \* "fresh" | "resume"
  exitCode,         \* -1 while running
  interrupted,      \* the module-level flag
  runs,             \* processes started so far
  cur,              \* main's loop index into source.files
  outDir,           \* runPipeline's outputDir
  pdfPath,          \* runPipeline's pdfPath
  resumeCheckpoint, \* runPipeline's resumeCheckpoint (Null on a fresh run)
  mem,              \* runPipeline's locals
  ret,              \* value returned by runPipeline
  pipelineResults,  \* main's pipelineResults
  log,              \* warnings emitted by the process
  execLog,          \* stages executed by this runPipeline call
  batchReport,      \* batch-report.json as written by this process
  fn                \* a worker called on its own: its input, locals, result

vars == <<input, disk, pc, mode, exitCode, interrupted, runs, cur, outDir,
          pdfPath, resumeCheckpoint, mem, ret, pipelineResults, log, execLog,
          batchReport, fn>>

\* --------------------------------------------------------------- the disk
EmptyDir ==
  [ckptFile |-> Absent, tmpFile |-> Absent, manifest |-> Absent,
   profile |-> Absent, classification |-> Absent, route |-> Absent,
   pageRoutes |-> Absent, extracted |-> Absent, segments |-> Absent,
   markdown |-> Absent, report |-> Absent]

\* A JSON file written by the program: base is the base name its file name
\* is built from, data the parsed content.
File(base, data) == [st |-> "ok", base |-> base, data |-> data]

\* safeReadJSON: the parsed content, or null for a malformed file
safeReadJSON(f) == IF f.st = "ok" THEN f.data ELSE Null

\* ------------------------------------------------------------- checkpoint
RECURSIVE SeqCode(_)
SeqCode(s) == IF s = <<>> THEN 0 ELSE Head(s) + 7 * SeqCode(Tail(s))

\* computeChecksum: SHA-256 of JSON.stringify(obj), modelled as an injective
\* encoding of the serialized fields (source, current_stage, completed_stages)
computeChecksum(obj) ==
  obj.current_stage + 7 * (Rank(obj.source) + 4 * SeqCode(obj.completed_stages))

\* saveCheckpoint: the checksum is recomputed over the data without its
\* checksum, the JSON goes to .checkpoint.json.tmp, which is then renamed.
CheckpointJSON(checkpointData) ==
  [st |-> "ok", data |-> checkpointData, checksum |-> computeChecksum(checkpointData)]

\* saveCheckpoint writing .checkpoint.json in place, without the temporary
\* file and the rename
saveCheckpointInPlace(dsk, dir, checkpointData) ==
  << [dsk EXCEPT ![dir].ckptFile = [st |-> "bad"]],
     [dsk EXCEPT ![dir].ckptFile = CheckpointJSON(checkpointData)],
     [dsk EXCEPT ![dir].ckptFile = CheckpointJSON(checkpointData)] >>

\* The disk after each file-system call of saveCheckpoint: writeFileSync
\* half done, writeFileSync done, renameSync done.
saveCheckpointTrace(dsk, dir, checkpointData) ==
  << [dsk EXCEPT ![dir].tmpFile = [st |-> "bad"]],
     [dsk EXCEPT ![dir].tmpFile = CheckpointJSON(checkpointData)],
     [dsk EXCEPT ![dir].ckptFile = CheckpointJSON(checkpointData),
                 ![dir].tmpFile = Absent] >>

saveCheckpoint(dsk, dir, checkpointData) ==
  LET trace == saveCheckpointTrace(dsk, dir, checkpointData)
  IN trace[Len(trace)]

\* loadCheckpoint: Null when the file is missing, malformed or fails the
\* checksum; the raw checkpoint otherwise.
ChecksumOK(f) == f.checksum = computeChecksum(f.data)

\* loadCheckpoint without its checksum test (lines 302-309 left out)
loadCheckpointUnchecked(f) ==
  IF f.st = "absent" THEN Null
  ELSE IF f.st # "ok" THEN Null
  ELSE f.data

loadCheckpoint(f) ==
  IF f.st = "absent" THEN Null
  ELSE IF f.st # "ok" THEN Null
  ELSE IF ~ChecksumOK(f) THEN Null
  ELSE f.data

loadCheckpointWarnings(f) ==
  IF f.st = "absent" THEN {}
  ELSE IF f.st # "ok" THEN {"malformed-json", "checkpoint-malformed"}
  ELSE IF ~ChecksumOK(f) THEN {"checksum-mismatch"}
  ELSE {}

\* ---------------------------------------------------------- stage workers
\* PDFIngester.ingest on one path: the file is registered, or its read
\* error is recorded and files stays empty.
Ingest(path) ==
  [source |-> path,
   files |-> IF input.readable THEN <<path>> ELSE <<>>,
   errors |-> IF input.readable THEN 0 ELSE 1]

\* profilePages + aggregatePageProfiles
Profile(name) ==
  [file |-> name, page_profiles |-> input.hasPages, degraded |-> input.degraded]

\* DocumentClassifier.classify on the preliminary text (stage 2)
Classification(name) ==
  [file |-> name,
   primary_type |-> IF input.cls = "late" \/ ~input.hasPages
                    THEN "unknown" ELSE "sentenca",
   reclassified |-> FALSE]

\* OCRRouter.route / routePages
Route(profile) ==
  [file |-> profile.file,
   method |-> IF profile.page_profiles THEN "fast-parse" ELSE "manual-review"]

RoutePages(profile) == [needs_ocr |-> profile.degraded]

\* TextExtractor.extract / extractHybrid followed by stripRepetitiveContent
Extract(name, routeDecision, needsHybrid) ==
  [file |-> name,
   pages |-> routeDecision.method # "manual-review" /\ input.hasPages,
   method |-> IF needsHybrid THEN "hybrid" ELSE routeDecision.method,
   classification |-> Undefined]

\* PageSegmenter.segment: no pages, no segments; otherwise one piece whose
\* type falls back to the bridged profiler classification.
Segment(extracted) ==
  IF ~extracted.pages THEN <<>>
  ELSE <<[doc_type |-> IF extracted.classification \notin {Null, Undefined}
                        THEN extracted.classification.primary_type
                        ELSE "unknown",
          classification_source |->
             IF extracted.classification \notin {Null, Undefined}
             THEN "profiler-fallback" ELSE "boundary-rules"]>>

\* Stage 5.5 on one segment: the per-segment classifier looks at the text
\* of the segment's pages only.
ClassifyL1(seg, extracted) ==
  IF extracted.pages /\ input.l1
  THEN [doc_type |-> "despacho", classification_source |-> "per-segment-L1"]
  ELSE seg

\* MarkdownExporter.exportAll: one .md per segment plus index.json
ExportAll(segments) ==
  [st |-> "ok",
   files |-> [j \in DOMAIN segments |-> segments[j].doc_type],
   index |-> [j \in DOMAIN segments |-> segments[j].doc_type]]

\* QCValidator.runQualityGate(...).summary
RunQualityGate(segments) ==
  [passed |-> IF input.qc = "pass" THEN Len(segments) ELSE 0,
   flagged |-> IF input.qc = "flag" THEN Len(segments) ELSE 0,
   rejected |-> 0,
   mislabels_caught |-> 0]

RECURSIVE SumOf(_, _)
SumOf(qcResults, field) ==
  IF qcResults = <<>> THEN 0
  ELSE Head(qcResults)[field] + SumOf(Tail(qcResults), field)

\* ------------------------------------------------------------------ reload
\* reloadStageData, one operator per in-memory array.  A directory holds at
\* most one file of each kind because runPipeline is given one PDF.
Listed(f) == f.st # "absent"

reloadManifest(d) ==
  IF ~Listed(d.manifest) THEN Null ELSE safeReadJSON(d.manifest)

reloadProfiles(d) ==
  SelectTruthy(IF Listed(d.profile) THEN <<safeReadJSON(d.profile)>> ELSE <<>>)

reloadClassifications(d) ==
  SelectTruthy(IF Listed(d.classification)
               THEN <<safeReadJSON(d.classification)>> ELSE <<>>)

reloadRouteDecisions(d) ==
  SelectTruthy(IF Listed(d.route) /\ ~IncludesPage(d.route.base)
               THEN <<safeReadJSON(d.route)>> ELSE <<>>)

reloadPageRoutesList(d) ==
  IF Listed(d.pageRoutes)
  THEN <<IF safeReadJSON(d.pageRoutes) # Null
         THEN safeReadJSON(d.pageRoutes).pageRoutes ELSE Null>>
  ELSE <<>>

reloadExtractedDataList(d) ==
  SelectTruthy(IF Listed(d.extracted) THEN <<safeReadJSON(d.extracted)>> ELSE <<>>)

reloadAllSegments(d) ==
  SelectTruthy(IF Listed(d.segments)
               THEN <<IF safeReadJSON(d.segments) # Null
                      THEN [file |-> safeReadJSON(d.segments).file,
                            segments |-> safeReadJSON(d.segments).segments]
                      ELSE Null>>
               ELSE <<>>)

\* the kinds of file each completed stage makes reloadStageData read
KindsOfStage(stageId) ==
  CASE stageId = 1 -> {"manifest"}
    [] stageId = 2 -> {"profile", "classification"}
    [] stageId = 3 -> {"route", "pageRoutes"}
    [] stageId = 4 -> {"extracted"}
    [] stageId = 5 -> {"segments"}
    [] OTHER -> {}

reloadWarnings(d, completedStages) ==
  IF \E i \in DOMAIN completedStages :
        \E k \in KindsOfStage(completedStages[i]) : d[k].st = "bad"
  THEN {"malformed-json"} ELSE {}

\* runPipeline, lines 388-449: the locals, then the reload of every
\* completed stage's data when resuming.
EnterPipeline(path, d, ckpt) ==
  LET completedStages == IF ckpt # Null THEN ckpt.completed_stages ELSE <<>>
      resumed(stageId) == ckpt # Null /\ Has(completedStages, stageId)
  IN [completedStages |-> completedStages,
      checkpoint |-> [source |-> path, current_stage |-> 0,
                      completed_stages |-> completedStages],
      manifest |-> IF resumed(1) THEN reloadManifest(d) ELSE Null,
      profiles |-> IF resumed(2) THEN reloadProfiles(d) ELSE <<>>,
      classifications |-> IF resumed(2) THEN reloadClassifications(d) ELSE <<>>,
      routeDecisions |-> IF resumed(3) THEN reloadRouteDecisions(d) ELSE <<>>,
      pageRoutesList |-> IF resumed(3) THEN reloadPageRoutesList(d) ELSE <<>>,
      extractedDataList |-> IF resumed(4) THEN reloadExtractedDataList(d) ELSE <<>>,
      allSegments |-> IF resumed(5) THEN reloadAllSegments(d) ELSE <<>>,
      limitations |-> <<>>,
      qcResult |-> Null]

NoMem == EnterPipeline(Names[1], EmptyDir, Null)

NoRet == [interrupted |-> FALSE, report |-> Null, qcSummary |-> Null]

\* ------------------------------------------------------------ step effects
\* What one step of runPipeline does to the locals and the disk.  save says
\* that the step ends with saveCheckpoint(outputDir, checkpoint); pc
\* "throw" is an exception reaching main().catch.
Here ==
  [mem |-> mem, disk |-> disk, pc |-> pc, log |-> log, execLog |-> execLog,
   ret |-> ret, save |-> FALSE]

Skip(next) == [Here EXCEPT !.pc = next]

Throw == [Here EXCEPT !.pc = "throw"]

\* if (interrupted) { saveCheckpoint(...); return { ..., interrupted: true }; }
ReturnInterrupted ==
  [Here EXCEPT !.save = TRUE, !.pc = "mainret",
               !.ret = [interrupted |-> TRUE, report |-> Null, qcSummary |-> Null]]

Started(stage) == Append(execLog, [stage |-> stage, done |-> mem.completedStages])

\* completed_stages overwritten with the last stage instead of extended
AddCompletedForgetting(m, k) ==
  [m EXCEPT !.completedStages = <<k>>, !.checkpoint.completed_stages = <<k>>]

\* completedStages.add(k); checkpoint.completed_stages = [...completedStages]
AddCompleted(m, k) ==
  LET cs == IF Has(m.completedStages, k) THEN m.completedStages
            ELSE Append(m.completedStages, k)
  IN [m EXCEPT !.completedStages = cs, !.checkpoint.completed_stages = cs]

\* one writeFileSync per element, in array order
RECURSIVE WriteFiles(_, _, _)
WriteFiles(d, kind, files) ==
  IF files = <<>> THEN d
  ELSE WriteFiles([d EXCEPT ![kind] = Head(files)], kind, Tail(files))

MapSeq(arr, F(_)) == [i \in DOMAIN arr |-> F(arr[i])]

\* Stage 1, lines 454-469: the intake and its manifest file
Stage1Body(m, d, path) ==
  LET manifest == Ingest(path)
  IN [mem |-> AddCompleted([m EXCEPT !.checkpoint.current_stage = 1,
                                     !.manifest = manifest], 1),
      dir |-> [d EXCEPT !.manifest = File("manifest", manifest)]]

\* Stage 2, lines 493-549: one profile and one classification per file
Stage2Body(m, d) ==
  LET files == m.manifest.files
      newProfiles == MapSeq(files, Profile)
      newClasses == MapSeq(files, Classification)
      d1 == WriteFiles(d, "profile",
                       MapSeq(newProfiles, LAMBDA p : File(BaseName(p.file), p)))
      d2 == WriteFiles(d1, "classification",
                       MapSeq(newClasses, LAMBDA c : File(BaseName(c.file), c)))
  IN [mem |-> AddCompleted([m EXCEPT !.checkpoint.current_stage = 2,
                                     !.profiles = m.profiles \o newProfiles,
                                     !.classifications = m.classifications \o newClasses], 2),
      dir |-> d2]

\* Stage 3, lines 556-603: one route per profile, page routes when the
\* profile has page profiles, a limitation when OCR is needed but missing
Stage3Body(m, d) ==
  LET decisions == MapSeq(m.profiles, Route)
      pageRoutes == MapSeq(m.profiles,
                      LAMBDA p : IF p.page_profiles THEN RoutePages(p) ELSE Null)
      needOcr == SelectSeq(m.profiles,
                   LAMBDA p : p.page_profiles /\ RoutePages(p).needs_ocr
                              /\ ~input.hasTesseract)
      d1 == WriteFiles(d, "route",
                       MapSeq(decisions, LAMBDA r : File(BaseName(r.file), r)))
      d2 == WriteFiles(d1, "pageRoutes",
              MapSeq(SelectSeq(m.profiles, LAMBDA p : p.page_profiles),
                     LAMBDA p : File(BaseName(p.file),
                                     [file |-> p.file, pageRoutes |-> RoutePages(p)])))
      m1 == [m EXCEPT !.checkpoint.current_stage = 3,
                      !.routeDecisions = m.routeDecisions \o decisions,
                      !.pageRoutesList = m.pageRoutesList \o pageRoutes,
                      !.limitations = m.limitations \o MapSeq(needOcr, LAMBDA p : p.file)]
  IN [mem |-> AddCompleted(m1, 3), dir |-> d2]

\* Stage 4.5, lines 661-678, on classification i
Reclassify(m, i) ==
  LET prev == At(m.classifications, i)
      extracted == m.extractedDataList[i]
  IN IF prev \notin {Null, Undefined} /\ prev.primary_type = "unknown"
        /\ extracted.pages /\ input.cls = "late"
     THEN <<[file |-> m.manifest.files[i], primary_type |-> "sentenca",
             reclassified |-> TRUE]>>
     ELSE <<>>

\* Stage 4, lines 619-684: extraction, then stage 4.5
Stage4Body(m, d) ==
  LET files == m.manifest.files
      extractedOf(i) ==
        LET pageRoutes == At(m.pageRoutesList, i)
            needsHybrid == input.hasTesseract
                             /\ pageRoutes \notin {Null, Undefined}
                             /\ pageRoutes.needs_ocr
        IN Extract(files[i], m.routeDecisions[i], needsHybrid)
      newExtracted == [i \in DOMAIN files |-> extractedOf(i)]
      m1 == [m EXCEPT !.checkpoint.current_stage = 4,
                      !.extractedDataList = m.extractedDataList \o newExtracted]
      m2 == [m1 EXCEPT !.classifications =
               [i \in DOMAIN m1.classifications |->
                  IF i \in DOMAIN m1.extractedDataList /\ Reclassify(m1, i) # <<>>
                  THEN Reclassify(m1, i)[1] ELSE m1.classifications[i]]]
      d1 == WriteFiles(d, "extracted",
                       MapSeq(newExtracted, LAMBDA e : File(BaseName(e.file), e)))
      rewritten == SelectSeq(m2.classifications,
                             LAMBDA c : c.reclassified /\ ~Has(m1.classifications, c))
      d2 == WriteFiles(d1, "classification",
                       MapSeq(rewritten, LAMBDA c : File(BaseName(c.file), c)))
  IN [mem |-> AddCompleted(m2, 4), dir |-> d2]

\* Stage 5, lines 703-722: the classification is bridged into the
\* extraction, which is then segmented
Stage5Body(m, d) ==
  LET files == m.manifest.files
      bridged == [i \in DOMAIN files |->
                    [m.extractedDataList[i] EXCEPT !.classification =
                       IF At(m.classifications, i) = Undefined THEN Null
                       ELSE m.classifications[i]]]
      newSegments == [i \in DOMAIN files |->
                        [file |-> files[i], segments |-> Segment(bridged[i])]]
      d1 == WriteFiles(d, "segments",
                       MapSeq(newSegments, LAMBDA x : File(BaseName(x.file), x)))
      m1 == [m EXCEPT !.checkpoint.current_stage = 5,
                      !.extractedDataList = bridged,
                      !.allSegments = m.allSegments \o newSegments]
  IN [mem |-> AddCompleted(m1, 5), dir |-> d1]

\* Stage 5.5, lines 733-784: every segment is classified again from its own
\* text and the segments files are written a second time
Stage55Body(m, d) ==
  LET decorated == [i \in DOMAIN m.allSegments |->
                      [m.allSegments[i] EXCEPT !.segments =
                         MapSeq(m.allSegments[i].segments,
                                LAMBDA seg : ClassifyL1(seg, m.extractedDataList[i]))]]
      d1 == WriteFiles(d, "segments",
              [i \in DOMAIN decorated |->
                 File(BaseName(m.manifest.files[i]),
                      [file |-> m.manifest.files[i],
                       segments |-> decorated[i].segments])])
  IN [mem |-> [m EXCEPT !.allSegments = decorated], dir |-> d1]

\* Stage 6, lines 807-862: export, quality gate, merged QC summary
Stage6Body(m, d) ==
  LET files == m.manifest.files
      exported == [i \in DOMAIN files |-> ExportAll(m.allSegments[i].segments)]
      qcResults == [i \in DOMAIN files |-> RunQualityGate(m.allSegments[i].segments)]
      qcResult == [passed |-> SumOf(qcResults, "passed"),
                   flagged |-> SumOf(qcResults, "flagged"),
                   rejected |-> SumOf(qcResults, "rejected"),
                   mislabels_caught |-> SumOf(qcResults, "mislabels_caught")]
      m1 == [m EXCEPT !.checkpoint.current_stage = 6, !.qcResult = qcResult]
  IN [mem |-> AddCompleted(m1, 6), dir |-> WriteFiles(d, "markdown", exported)]

NoQC == [passed |-> 0, flagged |-> 0, rejected |-> 0, mislabels_caught |-> 0]

\* generateReport, lines 887-972
generateReport(m) ==
  LET qc == IF m.qcResult # Null THEN m.qcResult ELSE NoQC
      reviewReasons ==
        IF m.qcResult = Null THEN {}
        ELSE {r \in {"flagged", "rejected", "mislabels_caught"} : m.qcResult[r] > 0}
  IN [source |-> IF m.manifest # Null THEN m.manifest.source ELSE "unknown",
      ingest |-> IF m.manifest # Null
                 THEN [files |-> Len(m.manifest.files), errors |-> m.manifest.errors]
                 ELSE [files |-> 0, errors |-> 0],
      profile |-> [i \in DOMAIN m.profiles |->
                     IF At(m.classifications, i) # Undefined
                     THEN m.classifications[i].primary_type ELSE "unknown"],
      route |-> MapSeq(m.routeDecisions, LAMBDA r : r.method),
      extract |-> MapSeq(m.extractedDataList,
                         LAMBDA e : [pages |-> e.pages, method |-> e.method]),
      segment |-> [i \in DOMAIN m.allSegments |->
                     MapSeq(m.allSegments[i].segments, LAMBDA seg : seg.doc_type)],
      qc |-> qc,
      limitations |-> m.limitations,
      review_needed |-> reviewReasons # {},
      review_reasons |-> reviewReasons]

\* The state a step leaves behind, from the body of its stage
After(b) == [Here EXCEPT !.mem = b.mem, !.disk[outDir] = b.dir]

\* Stage 1, lines 452-459: skip, stop on the flag, or start the intake
Stage1BeginEff ==
  IF Has(mem.completedStages, 1) THEN Skip("chk")
  ELSE IF interrupted THEN ReturnInterrupted
  ELSE [Here EXCEPT !.mem.checkpoint.current_stage = 1, !.pc = "in1",
                    !.execLog = Started(10)]

\* Stage 1, lines 460-470: the manifest is written, then the checkpoint
Stage1EndEff ==
  [After(Stage1Body(mem, disk[outDir], pdfPath)) EXCEPT !.save = TRUE, !.pc = "chk"]

\* lines 473-476
ManifestCheckEff ==
  IF mem.manifest = Null \/ Len(mem.manifest.files) = 0
  THEN [Here EXCEPT !.log = log \cup {"no-files-registered"}, !.pc = "mainret",
                    !.ret = NoRet]
  ELSE Skip("st2")

\* Stage 2, lines 491-495
Stage2BeginEff ==
  IF Has(mem.completedStages, 2) THEN Skip("st3")
  ELSE IF interrupted THEN ReturnInterrupted
  ELSE [Here EXCEPT !.mem.checkpoint.current_stage = 2, !.pc = "in2",
                    !.execLog = Started(20)]

\* Stage 2, lines 496-550
Stage2EndEff ==
  [After(Stage2Body(mem, disk[outDir])) EXCEPT !.save = TRUE, !.pc = "st3"]

\* Stage 3 without the test of the interrupted flag (line 555 left out)
Stage3EffNoFlagCheck ==
  IF Has(mem.completedStages, 3) THEN Skip("st4")
  ELSE [After(Stage3Body(mem, disk[outDir])) EXCEPT
          !.execLog = Started(30), !.save = TRUE, !.pc = "st4"]

\* Stage 3, lines 554-605 (synchronous)
Stage3Eff ==
  IF Has(mem.completedStages, 3) THEN Skip("st4")
  ELSE IF interrupted THEN ReturnInterrupted
  ELSE [After(Stage3Body(mem, disk[outDir])) EXCEPT
          !.execLog = Started(30), !.save = TRUE, !.pc = "st4"]

\* Stage 4 with the alignment failure logged and the stage passed over
\* instead of thrown
Stage4BeginEffNoThrow ==
  IF Has(mem.completedStages, 4) THEN Skip("st5")
  ELSE IF interrupted THEN ReturnInterrupted
  ELSE IF Len(mem.routeDecisions) # Len(mem.manifest.files)
       THEN [Skip("st5") EXCEPT !.log = log \cup {"stage-4-alignment-error"}]
  ELSE [Here EXCEPT !.mem.checkpoint.current_stage = 4, !.pc = "in4",
                    !.execLog = Started(40)]

\* Stage 4, lines 608-617: the alignment assertion runs before the first await
Stage4BeginEff ==
  IF Has(mem.completedStages, 4) THEN Skip("st5")
  ELSE IF interrupted THEN ReturnInterrupted
  ELSE IF Len(mem.routeDecisions) # Len(mem.manifest.files)
       THEN [Throw EXCEPT !.mem.checkpoint.current_stage = 4,
                          !.log = log \cup {"stage-4-alignment-error"}]
  ELSE [Here EXCEPT !.mem.checkpoint.current_stage = 4, !.pc = "in4",
                    !.execLog = Started(40)]

\* Stage 4, lines 619-685: extraction, stage 4.5, checkpoint
Stage4EndEff ==
  [After(Stage4Body(mem, disk[outDir])) EXCEPT !.save = TRUE, !.pc = "st5"]

\* Stage 5 without the test of completedStages (line 689 left out)
Stage5EffRerun ==
  IF interrupted THEN ReturnInterrupted
  ELSE IF Len(mem.extractedDataList) # Len(mem.manifest.files)
       THEN [Throw EXCEPT !.mem.checkpoint.current_stage = 5,
                          !.log = log \cup {"stage-5-alignment-error"}]
  ELSE [After(Stage5Body(mem, disk[outDir])) EXCEPT
          !.execLog = Started(50), !.save = TRUE, !.pc = "st55"]

\* Stage 5, lines 689-724 (synchronous)
Stage5Eff ==
  IF Has(mem.completedStages, 5) THEN Skip("st55")
  ELSE IF interrupted THEN ReturnInterrupted
  ELSE IF Len(mem.extractedDataList) # Len(mem.manifest.files)
       THEN [Throw EXCEPT !.mem.checkpoint.current_stage = 5,
                          !.log = log \cup {"stage-5-alignment-error"}]
  ELSE [After(Stage5Body(mem, disk[outDir])) EXCEPT
          !.execLog = Started(50), !.save = TRUE, !.pc = "st55"]

\* Stage 5.5, lines 726-785: no completedStages test, no flag test, no
\* checkpoint; extractedDataList[i].pages and manifest.files[i].name throw a
\* TypeError when the arrays are shorter than allSegments.
Stage55Eff ==
  IF \E i \in DOMAIN mem.allSegments :
        i \notin DOMAIN mem.extractedDataList \/ i \notin DOMAIN mem.manifest.files
  THEN [Throw EXCEPT !.log = log \cup {"type-error"}, !.execLog = Started(55)]
  ELSE [After(Stage55Body(mem, disk[outDir])) EXCEPT
          !.execLog = Started(55), !.pc = "st6"]

\* Stage 6, lines 788-864 (synchronous)
Stage6Eff ==
  IF Has(mem.completedStages, 6) THEN Skip("rep")
  ELSE IF interrupted THEN ReturnInterrupted
  ELSE IF Len(mem.extractedDataList) # Len(mem.manifest.files)
          \/ Len(mem.allSegments) # Len(mem.manifest.files)
       THEN [Throw EXCEPT !.mem.checkpoint.current_stage = 6,
                          !.log = log \cup {"stage-6-alignment-error"}]
  ELSE [After(Stage6Body(mem, disk[outDir])) EXCEPT
          !.execLog = Started(60), !.save = TRUE, !.pc = "rep"]

\* lines 866-881
ReportEff ==
  LET report == generateReport(mem)
  IN [Here EXCEPT !.disk[outDir].report = [st |-> "ok", data |-> report],
                  !.pc = "mainret",
                  !.ret = [interrupted |-> FALSE, report |-> report,
                           qcSummary |-> mem.qcResult]]

\* ----------------------------------------------------------------- actions
Commit(e) ==
  /\ mem' = e.mem
  /\ disk' = IF e.save THEN saveCheckpoint(e.disk, outDir, e.mem.checkpoint) ELSE e.disk
  /\ log' = e.log
  /\ execLog' = e.execLog
  /\ ret' = e.ret
  /\ pc' = IF e.pc = "throw" THEN "exited" ELSE e.pc
  /\ exitCode' = IF e.pc = "throw" THEN 1 ELSE exitCode
  /\ UNCHANGED <<fn, batchReport, input, mode, interrupted, runs, cur, outDir, pdfPath,
                 resumeCheckpoint, pipelineResults>>

Stage1Begin == pc = "st1" /\ Commit(Stage1BeginEff)
Stage1End == pc = "in1" /\ Commit(Stage1EndEff)
ManifestCheck == pc = "chk" /\ Commit(ManifestCheckEff)
Stage2Begin == pc = "st2" /\ Commit(Stage2BeginEff)
Stage2End == pc = "in2" /\ Commit(Stage2EndEff)
Stage3 == pc = "st3" /\ Commit(Stage3Eff)
Stage4Begin == pc = "st4" /\ Commit(Stage4BeginEff)
Stage4End == pc = "in4" /\ Commit(Stage4EndEff)
Stage5 == pc = "st5" /\ Commit(Stage5Eff)
Stage55 == pc = "st55" /\ Commit(Stage55Eff)
Stage6 == pc = "st6" /\ Commit(Stage6Eff)
Report == pc = "rep" /\ Commit(ReportEff)

\* createPdfSubfolder / outputBase
OutputDirOf(name) == IF input.srcMode = "batch" THEN BaseName(name) ELSE "out"

\* main, lines 1093-1104: the next PDF of the source is handed to runPipeline
RunNext ==
  /\ pc = "loop"
  /\ cur <= Len(input.files)
  /\ ~interrupted
  /\ pdfPath' = input.files[cur]
  /\ outDir' = OutputDirOf(input.files[cur])
  /\ resumeCheckpoint' = Null
  /\ mem' = EnterPipeline(input.files[cur], disk[OutputDirOf(input.files[cur])], Null)
  /\ execLog' = <<>>
  /\ ret' = NoRet
  /\ pc' = "st1"
  /\ UNCHANGED <<fn, batchReport, input, disk, mode, exitCode, interrupted, runs, cur,
                 pipelineResults, log>>

RECURSIVE TotalSegments(_)
TotalSegments(perFile) ==
  IF perFile = <<>> THEN 0
  ELSE Len(Head(perFile)) + TotalSegments(Tail(perFile))

RECURSIVE SumSegments(_)
SumSegments(reports) ==
  IF reports = <<>> THEN 0
  ELSE TotalSegments(Head(reports).segment) + SumSegments(Tail(reports))

\* generateBatchReport, lines 974-997 (version, times left out)
generateBatchReport(reports) ==
  [total_pdfs |-> Len(reports),
   total_segments |-> SumSegments(reports),
   review_needed |-> \E i \in DOMAIN reports : reports[i].review_needed,
   pdfs |-> [i \in DOMAIN reports |->
               [source |-> reports[i].source,
                segments |-> TotalSegments(reports[i].segment),
                qc_passed |-> reports[i].qc.passed,
                qc_flagged |-> reports[i].qc.flagged,
                qc_rejected |-> reports[i].qc.rejected,
                review_needed |-> reports[i].review_needed]]]

\* main, lines 1114-1120: the reports of the PDFs that returned one
ReportsOf(results) ==
  LET kept == SelectSeq(results, LAMBDA r : r.report # Null)
  IN  [i \in DOMAIN kept |-> kept[i].report]

\* main, lines 1093-1126: the loop is over or broken by the flag
MainFinish ==
  /\ pc = "loop"
  /\ (cur > Len(input.files) \/ interrupted)
  /\ pc' = "exited"
  /\ exitCode' = IF interrupted THEN 130 ELSE 0
  /\ batchReport' =
       IF input.srcMode = "batch" /\ ReportsOf(pipelineResults) # <<>>
         THEN [st |-> "ok", data |-> generateBatchReport(ReportsOf(pipelineResults))]
         ELSE batchReport
  /\ UNCHANGED <<fn, input, disk, mode, interrupted, runs, cur, outDir, pdfPath,
                 resumeCheckpoint, mem, ret, pipelineResults, log, execLog>>

\* main after await runPipeline: lines 1046-1056 (resume), 1103-1104 (fresh)
MainReturn ==
  /\ pc = "mainret"
  /\ IF mode = "resume"
     THEN /\ pc' = "exited"
          /\ exitCode' = IF ret.interrupted THEN 130 ELSE 0
          /\ UNCHANGED <<pipelineResults, cur>>
     ELSE /\ pipelineResults' = Append(pipelineResults, ret)
          /\ cur' = cur + 1
          /\ pc' = "loop"
          /\ UNCHANGED exitCode
  /\ UNCHANGED <<fn, batchReport, input, disk, mode, interrupted, runs, outDir, pdfPath,
                 resumeCheckpoint, mem, ret, log, execLog>>

\* The handler with process.exit(130) for the second signal
SignalExit130 ==
  /\ pc \in {"in1", "in2", "in4"}
  /\ IF interrupted
     THEN /\ pc' = "exited"
          /\ exitCode' = 130
          /\ log' = log \cup {"forcing-exit"}
          /\ UNCHANGED interrupted
     ELSE /\ interrupted' = TRUE
          /\ log' = log \cup {"finishing-current-stage"}
          /\ UNCHANGED <<pc, exitCode>>
  /\ UNCHANGED <<fn, batchReport, input, disk, mode, runs, cur, outDir, pdfPath,
                 resumeCheckpoint, mem, ret, pipelineResults, execLog>>

\* setupSignalHandlers: SIGINT/SIGTERM delivered while runPipeline awaits
Signal ==
  /\ pc \in {"in1", "in2", "in4"}
  /\ IF interrupted
     THEN /\ pc' = "exited"
          /\ exitCode' = 1
          /\ log' = log \cup {"forcing-exit"}
          /\ UNCHANGED interrupted
     ELSE /\ interrupted' = TRUE
          /\ log' = log \cup {"finishing-current-stage"}
          /\ UNCHANGED <<pc, exitCode>>
  /\ UNCHANGED <<fn, batchReport, input, disk, mode, runs, cur, outDir, pdfPath,
                 resumeCheckpoint, mem, ret, pipelineResults, execLog>>

\* main, lines 1033-1046: a new process started with --resume <dir>/.checkpoint.json
Resume(dir) ==
  /\ pc = "exited"
  /\ runs < MaxRuns
  /\ runs' = runs + 1
  /\ mode' = "resume"
  /\ interrupted' = FALSE
  /\ pipelineResults' = <<>>
  /\ cur' = 1
  /\ execLog' = <<>>
  /\ ret' = NoRet
  /\ outDir' = dir
  /\ LET ckpt == loadCheckpoint(disk[dir].ckptFile)
     IN IF ckpt = Null
        THEN /\ log' = loadCheckpointWarnings(disk[dir].ckptFile) \cup {"cannot-resume"}
             /\ pc' = "exited"
             /\ exitCode' = 1
             /\ resumeCheckpoint' = Null
             /\ mem' = NoMem
             /\ pdfPath' = Names[1]
        ELSE /\ log' = reloadWarnings(disk[dir], ckpt.completed_stages)
             /\ pc' = "st1"
             /\ exitCode' = -1
             /\ resumeCheckpoint' = ckpt
             /\ mem' = EnterPipeline(ckpt.source, disk[dir], ckpt)
             /\ pdfPath' = ckpt.source
  /\ batchReport' = Absent
  /\ UNCHANGED <<fn, input, disk>>

\* no worker is called on its own
NoFn == [kind |-> "none"]

\* the orchestrator's variables when a process starts
InitPipeline ==
  /\ input \in Inputs
  /\ disk = [d \in Dirs |-> EmptyDir]
  /\ pc = "loop"
  /\ mode = "fresh"
  /\ exitCode = -1
  /\ interrupted = FALSE
  /\ runs = 1
  /\ cur = 1
  /\ outDir = "out"
  /\ pdfPath = Names[1]
  /\ resumeCheckpoint = Null
  /\ mem = NoMem
  /\ ret = NoRet
  /\ pipelineResults = <<>>
  /\ log = {}
  /\ execLog = <<>>
  /\ batchReport = Absent

Init == InitPipeline /\ fn = NoFn

Next ==
  \/ RunNext \/ MainFinish \/ MainReturn \/ Signal
  \/ Stage1Begin \/ Stage1End \/ ManifestCheck \/ Stage2Begin \/ Stage2End
  \/ Stage3 \/ Stage4Begin \/ Stage4End \/ Stage5 \/ Stage55 \/ Stage6 \/ Report
  \/ \E dir \in Dirs : Resume(dir)

Spec == Init /\ [][Next]_vars

\* ------------------------------------------------- the files, edited by hand
\* Between two processes somebody may edit the output directory.  At most
\* one file of the disk is damaged at a time.
Undamaged ==
  \A d \in Dirs :
    /\ disk[d].ckptFile.st # "bad"
    /\ disk[d].ckptFile.st = "ok" => ChecksumOK(disk[d].ckptFile)
    /\ \A k \in Kinds : disk[d][k].st # "bad"

PipelinePcs ==
  {"st1", "in1", "chk", "st2", "in2", "st3", "st4", "in4", "st5", "st55",
   "st6", "rep", "mainret"}

\* current_stage of .checkpoint.json is changed, the checksum field is kept
\* (the edit of the regression test "checkpoint with invalid checksum is
\* rejected")
TamperCheckpoint(dir) ==
  /\ pc = "exited"
  /\ runs < MaxRuns
  /\ Undamaged
  /\ disk[dir].ckptFile.st = "ok"
  /\ \E cs \in 0..6 :
       /\ cs # disk[dir].ckptFile.data.current_stage
       /\ disk' = [disk EXCEPT ![dir].ckptFile.data.current_stage = cs]
  /\ UNCHANGED <<fn, batchReport, input, pc, mode, exitCode, interrupted, runs, cur, outDir,
                 pdfPath, resumeCheckpoint, mem, ret, pipelineResults, log, execLog>>

\* .checkpoint.json no longer parses (safeReadJSON's catch branch)
CorruptCheckpoint(dir) ==
  /\ pc = "exited"
  /\ runs < MaxRuns
  /\ Undamaged
  /\ disk[dir].ckptFile.st = "ok"
  /\ disk' = [disk EXCEPT ![dir].ckptFile = [st |-> "bad"]]
  /\ UNCHANGED <<fn, batchReport, input, pc, mode, exitCode, interrupted, runs, cur, outDir,
                 pdfPath, resumeCheckpoint, mem, ret, pipelineResults, log, execLog>>

\* a stage-output file no longer parses (safeReadJSON's catch branch)
CorruptStageFile(dir, kind) ==
  /\ pc = "exited"
  /\ runs < MaxRuns
  /\ Undamaged
  /\ disk[dir][kind].st = "ok"
  /\ disk' = [disk EXCEPT ![dir][kind] = [st |-> "bad", base |-> disk[dir][kind].base]]
  /\ UNCHANGED <<fn, batchReport, input, pc, mode, exitCode, interrupted, runs, cur, outDir,
                 pdfPath, resumeCheckpoint, mem, ret, pipelineResults, log, execLog>>

NextTamper ==
  \/ RunNext \/ MainFinish \/ MainReturn \/ Signal
  \/ Stage1Begin \/ Stage1End \/ ManifestCheck \/ Stage2Begin \/ Stage2End
  \/ Stage3 \/ Stage4Begin \/ Stage4End \/ Stage5 \/ Stage55 \/ Stage6 \/ Report
  \/ \E dir \in Dirs : Resume(dir)
  \/ \E dir \in Dirs : TamperCheckpoint(dir)
  \/ \E dir \in Dirs : CorruptCheckpoint(dir)
  \/ \E dir \in Dirs : \E kind \in Kinds : CorruptStageFile(dir, kind)

SpecTamper == Init /\ [][NextTamper]_vars

\* ------------------------------------------------------ the process, killed
\* The effect of the step the process is about to take
EffAt ==
  CASE pc = "st1" -> Stage1BeginEff
    [] pc = "in1" -> Stage1EndEff
    [] pc = "chk" -> ManifestCheckEff
    [] pc = "st2" -> Stage2BeginEff
    [] pc = "in2" -> Stage2EndEff
    [] pc = "st3" -> Stage3Eff
    [] pc = "st4" -> Stage4BeginEff
    [] pc = "in4" -> Stage4EndEff
    [] pc = "st5" -> Stage5Eff
    [] pc = "st55" -> Stage55Eff
    [] pc = "st6" -> Stage6Eff
    [] pc = "rep" -> ReportEff
    [] OTHER -> Here

\* The process is killed (SIGKILL, exit status 137) inside saveCheckpoint:
\* the disk is left as one of the states saveCheckpoint goes through.
CrashInSave ==
  /\ pc \in PipelinePcs
  /\ EffAt.save
  /\ \E k \in DOMAIN saveCheckpointTrace(EffAt.disk, outDir, EffAt.mem.checkpoint) :
       disk' = saveCheckpointTrace(EffAt.disk, outDir, EffAt.mem.checkpoint)[k]
  /\ pc' = "exited"
  /\ exitCode' = 137
  /\ UNCHANGED <<fn, batchReport, input, mode, interrupted, runs, cur, outDir, pdfPath,
                 resumeCheckpoint, mem, ret, pipelineResults, log, execLog>>

NextCrash ==
  \/ RunNext \/ MainFinish \/ MainReturn \/ Signal
  \/ Stage1Begin \/ Stage1End \/ ManifestCheck \/ Stage2Begin \/ Stage2End
  \/ Stage3 \/ Stage4Begin \/ Stage4End \/ Stage5 \/ Stage55 \/ Stage6 \/ Report
  \/ \E dir \in Dirs : Resume(dir)
  \/ CrashInSave

SpecCrash == Init /\ [][NextCrash]_vars

\* ------------------------------------------------------- the reference run
\* runPipeline(path, dir, options, log, null) on an empty output directory,
\* never interrupted: the locals and the directory it ends with.
CleanRun(path) ==
  LET s1 == Stage1Body(EnterPipeline(path, EmptyDir, Null), EmptyDir, path)
      s2 == Stage2Body(s1.mem, s1.dir)
      s3 == Stage3Body(s2.mem, s2.dir)
      s4 == Stage4Body(s3.mem, s3.dir)
      s5 == Stage5Body(s4.mem, s4.dir)
      s55 == Stage55Body(s5.mem, s5.dir)
      s6 == Stage6Body(s55.mem, s55.dir)
  IN IF Len(s1.mem.manifest.files) = 0 THEN s1
     ELSE [mem |-> s6.mem,
           dir |-> [s6.dir EXCEPT !.report =
                      [st |-> "ok", data |-> generateReport(s6.mem)]]]

\* The parts of an output directory that make up the final result
FinalResult(d) ==
  [segments |-> d.segments, markdown |-> d.markdown, report |-> d.report]

\* The reference is what a fresh run that is never signalled leaves behind
FreshRunIsCleanRun ==
  (mode = "fresh" /\ pc = "mainret" /\ ~interrupted)
    => /\ FinalResult(disk[outDir]) = FinalResult(CleanRun(pdfPath).dir)
       /\ mem = CleanRun(pdfPath).mem
       /\ ret.qcSummary = CleanRun(pdfPath).mem.qcResult

\* The stages 1..6 this runPipeline call has executed, in order
MainStages ==
  LET main == SelectSeq(execLog, LAMBDA e : e.stage # 55)
  IN [i \in DOMAIN main |-> main[i].stage \div 10]

IsPrefix(s, t) == Len(s) <= Len(t) /\ \A i \in DOMAIN s : s[i] = t[i]

\* ------------------------------------------------------------------ claims
\* A step that starts a process with --resume
ResumeStep == pc = "exited" /\ runs' = runs + 1

\* C1: loadCheckpoint accepts a checkpoint only if its checksum field is the
\* checksum of the other fields: every checkpoint file the program writes
\* satisfies the equality; a resume that is accepted read a file satisfying
\* it and uses that file's content; a file whose fields were changed with
\* the checksum kept is rejected with the mismatch warning, and the process
\* it was given to executes no stage.
C1_ChecksumGuard ==
  /\ [][\A dir \in Dirs :
          (pc # "exited" /\ disk'[dir].ckptFile # disk[dir].ckptFile)
            => (disk'[dir].ckptFile.st = "ok" /\ ChecksumOK(disk'[dir].ckptFile))]_vars
  /\ [][ResumeStep =>
          LET f == disk[outDir'].ckptFile
          IN /\ resumeCheckpoint' # Null
                  => (f.st = "ok" /\ ChecksumOK(f) /\ resumeCheckpoint' = f.data)
             /\ (f.st = "ok" /\ ~ChecksumOK(f))
                  => (resumeCheckpoint' = Null /\ pc' = "exited"
                      /\ "checksum-mismatch" \in log')]_vars
  /\ []((mode = "resume" /\ resumeCheckpoint = Null) => execLog = <<>>)

\* C1's case: a checkpoint whose current_stage was edited has been refused
C1_Witness ==
  /\ pc = "exited"
  /\ mode = "resume"
  /\ "checksum-mismatch" \in log
  /\ resumeCheckpoint = Null
  /\ disk[outDir].ckptFile.st = "ok"
  /\ ~ChecksumOK(disk[outDir].ckptFile)

\* C2: a process started with --resume on a corrupt checkpoint (malformed
\* JSON or checksum mismatch) warns and runs the stages again from stage 1.
C2_CorruptRestarts ==
  (/\ mode = "resume"
   /\ pc = "exited"
   /\ log \cap {"checkpoint-malformed", "checksum-mismatch"} # {})
    => (execLog # <<>> /\ execLog[1].stage = 10)

\* The stages of 1..6 the resumed checkpoint does not list
Todo == SelectSeq(STAGES, LAMBDA k : ~Has(resumeCheckpoint.completed_stages, k))

\* C3 as stated: a process resumed from a valid checkpoint has executed, when
\* it exits, exactly the stages the checkpoint does not list, in increasing
\* order.
C3_Original ==
  (mode = "resume" /\ resumeCheckpoint # Null /\ pc = "exited")
    => MainStages = Todo

\* C3, amended: no listed stage is executed again; the stages executed are
\* the unlisted ones in increasing order from the first, as far as the run
\* gets, and all of them once the run has generated its report.
C3_Amended ==
  (mode = "resume" /\ resumeCheckpoint # Null)
    => /\ IsPrefix(MainStages, Todo)
       /\ ret.report # Null => MainStages = Todo

\* C3's case: a run resumed after stage 2 has executed 3, 4, 5, 6 and exited
C3_Witness ==
  /\ mode = "resume"
  /\ pc = "exited"
  /\ exitCode = 0
  /\ resumeCheckpoint # Null
  /\ resumeCheckpoint.completed_stages = <<1, 2>>
  /\ MainStages = <<3, 4, 5, 6>>
  /\ ret.report # Null

\* The stages after which the flag test can stop a run: the flag is set
\* during an asynchronous stage (STAGES[].async) and tested before the next
\* stage starts.
InterruptedAfter == {1, 2, 4}

\* C4: a run interrupted after a stage and resumed to the end leaves the
\* same segments, Markdown files, report and QC summary as the run of the
\* same PDF that was never interrupted.
C4_ResumeEqualsClean ==
  (/\ mode = "resume"
   /\ pc = "exited"
   /\ exitCode = 0
   /\ resumeCheckpoint # Null
   /\ Len(resumeCheckpoint.completed_stages) \in InterruptedAfter)
    => /\ FinalResult(disk[outDir]) = FinalResult(CleanRun(pdfPath).dir)
       /\ ret.qcSummary = CleanRun(pdfPath).mem.qcResult

\* C5: when a resumed run has reloaded its arrays, each array of a completed
\* stage has one element per manifest file, the i-th one made from
\* manifest.files[i], as in the clean run.
C5_ReloadAligned ==
  (mode = "resume" /\ pc = "st1" /\ resumeCheckpoint # Null)
    => LET files == Ingest(pdfPath).files
           done(k) == Has(resumeCheckpoint.completed_stages, k)
           aligned(arr) == /\ Len(arr) = Len(files)
                           /\ \A i \in DOMAIN arr : arr[i].file = files[i]
       IN /\ done(2) => (aligned(mem.profiles) /\ aligned(mem.classifications))
          /\ done(3) => (/\ aligned(mem.routeDecisions)
                         /\ Len(mem.pageRoutesList) = Len(files))
          /\ done(4) => aligned(mem.extractedDataList)
          /\ done(5) => aligned(mem.allSegments)

\* The stage 1..6 the process was in when it last started one
LastStage == execLog[Len(execLog)].stage \div 10

\* The checkpoint on disk records the last stage started as completed
LastStageCheckpointed ==
  /\ execLog # <<>>
  /\ disk[outDir].ckptFile.st = "ok"
  /\ Has(disk[outDir].ckptFile.data.completed_stages, LastStage)

C7_StrictOrder ==
  /\ \A i \in DOMAIN execLog : \A k \in DOMAIN STAGES :
       /\ 10 * k < execLog[i].stage => Has(execLog[i].done, k)
       /\ 10 * k > execLog[i].stage => ~Has(execLog[i].done, k)
  /\ \A i, j \in DOMAIN execLog : i < j => execLog[i].stage < execLog[j].stage

\* C8: under process crashes inside saveCheckpoint, .checkpoint.json is at
\* every instant missing or one complete checkpoint whose checksum
\* validates, and a crash leaves it the previous or the new checkpoint.
C8_AtomicCheckpoint ==
  /\ [](\A dir \in Dirs :
          \/ disk[dir].ckptFile.st = "absent"
          \/ (disk[dir].ckptFile.st = "ok" /\ ChecksumOK(disk[dir].ckptFile)))
  /\ [][(exitCode' = 137 /\ exitCode # 137)
          => \/ disk'[outDir].ckptFile = disk[outDir].ckptFile
             \/ disk'[outDir].ckptFile = CheckpointJSON(EffAt.mem.checkpoint)]_vars

\* C8's case: killed while the temporary file was half written, the previous
\* checkpoint being in place
C8_Witness ==
  /\ exitCode = 137
  /\ disk[outDir].tmpFile.st = "bad"
  /\ disk[outDir].ckptFile.st = "ok"
  /\ ChecksumOK(disk[outDir].ckptFile)
  /\ disk[outDir].ckptFile.data.completed_stages = <<1, 2>>
  /\ mem.completedStages = <<1, 2>>
  /\ pc = "exited"

\* C9: between stages the checkpoint on disk lists exactly the stages
\* finished so far, which are 1..k for some k; within a run the set of
\* completed stages only grows.
C9_CheckpointAfterEachStage ==
  /\ []((pc \in PipelinePcs /\ mem.completedStages # <<>>)
          => /\ disk[outDir].ckptFile.st = "ok"
             /\ disk[outDir].ckptFile.data.completed_stages = mem.completedStages
             /\ mem.completedStages = [i \in 1..Len(mem.completedStages) |-> i]
             /\ \A i \in DOMAIN execLog :
                  (execLog[i].stage # 55 /\ i < Len(execLog))
                    => Has(mem.completedStages, execLog[i].stage \div 10))
  /\ [][(pc \in PipelinePcs)
          => IsPrefix(mem.completedStages, mem'.completedStages)]_vars

\* C9's case: stage 3 is over, stage 4 not started, the checkpoint lists 1, 2, 3
C9_Witness ==
  /\ pc = "st4"
  /\ mode = "fresh"
  /\ mem.completedStages = <<1, 2, 3>>
  /\ disk[outDir].ckptFile.st = "ok"
  /\ disk[outDir].ckptFile.data.completed_stages = <<1, 2, 3>>

\* C10: a resumed run that found a malformed stage-output file while
\* reloading starts again from stage 1.
C10_MalformedRestarts ==
  (/\ mode = "resume"
   /\ pc = "exited"
   /\ resumeCheckpoint # Null
   /\ "malformed-json" \in log)
    => (execLog # <<>> /\ execLog[1].stage = 10)

\* ------------------------------------------- killed and edited, one PDF
\* A single PDF (detectSource's 'single' mode); the process may be killed
\* inside saveCheckpoint and a stage-output file may be damaged between two
\* processes.
InitSingle == Init /\ input.srcMode = "single"

NextFault ==
  \/ RunNext \/ MainFinish \/ MainReturn \/ Signal
  \/ Stage1Begin \/ Stage1End \/ ManifestCheck \/ Stage2Begin \/ Stage2End
  \/ Stage3 \/ Stage4Begin \/ Stage4End \/ Stage5 \/ Stage55 \/ Stage6 \/ Report
  \/ \E dir \in Dirs : Resume(dir)
  \/ CrashInSave
  \/ \E dir \in Dirs : \E kind \in Kinds : CorruptStageFile(dir, kind)

SpecFault == InitSingle /\ [][NextFault]_vars

\* The alignment test at the start of stage k (lines 615, 699, 803)
Misaligned(k) ==
  CASE k = 4 -> Len(mem.routeDecisions) # Len(mem.manifest.files)
    [] k = 5 -> Len(mem.extractedDataList) # Len(mem.manifest.files)
    [] k = 6 -> \/ Len(mem.extractedDataList) # Len(mem.manifest.files)
                \/ Len(mem.allSegments) # Len(mem.manifest.files)

StartPc(k) == CASE k = 4 -> "st4" [] k = 5 -> "st5" [] k = 6 -> "st6"

\* C11: when stage 4, 5 or 6 is entered with a per-file array whose length
\* differs from manifest.files, the step writes nothing, leaves the
\* completed stages as they were, starts no per-file work and ends the
\* process with exit code 1.
C11_AlignmentFatal ==
  [][\A k \in {4, 5, 6} :
       (/\ pc = StartPc(k)
        /\ ~Has(mem.completedStages, k)
        /\ ~interrupted
        /\ Misaligned(k))
         => (/\ pc' = "exited"
             /\ exitCode' = 1
             /\ disk' = disk
             /\ mem'.completedStages = mem.completedStages
             /\ execLog' = execLog)]_vars

\* C11's case: stage 6 refused to run on a resume whose segments file was
\* damaged
C11_Witness ==
  /\ pc = "exited"
  /\ exitCode = 1
  /\ "stage-6-alignment-error" \in log
  /\ mem.completedStages = <<1, 2, 3, 4, 5>>
  /\ Len(mem.allSegments) # Len(mem.manifest.files)
  /\ disk[outDir].markdown = Absent
  /\ disk[outDir].ckptFile.data.completed_stages = <<1, 2, 3, 4, 5>>

\* The positions at which runPipeline is suspended inside a stage
InStagePcs == {"in1", "in2", "in4"}

\* C12: a signal that finds the interrupted flag set ends the process at
\* once with exit code 1: the stage in progress is not finished, nothing is
\* written, and the stage stays out of the completed stages.
C12_SecondSignalForcesExit ==
  /\ [][(pc \in InStagePcs /\ interrupted /\ mem' = mem)
          => (pc' = "exited" /\ exitCode' = 1 /\ disk' = disk
              /\ "forcing-exit" \in log')]_vars
  /\ []("forcing-exit" \in log
          => (/\ pc = "exited"
              /\ exitCode = 1
              /\ interrupted
              /\ execLog # <<>>
              /\ ~Has(mem.completedStages, LastStage)))

\* C12's case: two signals during stage 4
C12_Witness ==
  /\ pc = "exited"
  /\ exitCode = 1
  /\ "forcing-exit" \in log
  /\ execLog # <<>>
  /\ LastStage = 4
  /\ mem.completedStages = <<1, 2, 3>>
  /\ disk[outDir].extracted = Absent

\* ------------------------------------------------------------------
\* PageSegmenter (quality-profiler.js): page-level segmentation.
\* A page is described by what detectBoundaries and _extractParagraphNum
\* read from its text: the boundary rules whose pattern matches the
\* heading, whether the cleaned text is shorter than the blank-page
\* threshold, and the first / last paragraph number (Null when the
\* regular expression matches no line).  Weights are in hundredths.
\* ------------------------------------------------------------------

MaxPages == 3

boundaryRules ==
  << [name |-> "court-header",     weight |-> 90],
     [name |-> "petition-start",   weight |-> 85],
     [name |-> "sentence-start",   weight |-> 90],
     [name |-> "acordao-start",    weight |-> 90],
     [name |-> "certidao-start",   weight |-> 80],
     [name |-> "attachment-label", weight |-> 75],
     [name |-> "process-number",   weight |-> 60],
     [name |-> "despacho",         weight |-> 70],
     [name |-> "decisao",          weight |-> 75],
     [name |-> "oficio",           weight |-> 70] >>

\* detectBoundaries: one marker per matching rule, in the order of the
\* rules, then the blank-page marker when the cleaned text is short
detectBoundaries(page) ==
  LET hit == SelectSeq(boundaryRules, LAMBDA r : r.name \in page.heading)
      ms  == [i \in DOMAIN hit |->
                [rule |-> hit[i].name, weight |-> hit[i].weight,
                 page |-> page.page_number]]
  IN  IF page.short
        THEN Append(ms, [rule |-> "blank-page", weight |-> 70,
                         page |-> page.page_number])
        ELSE ms

ruleToType ==
  [r \in {"court-header", "petition-start", "sentence-start", "acordao-start",
          "certidao-start", "attachment-label", "despacho", "decisao",
          "oficio", "blank-page"} |->
     CASE r = "court-header"     -> [type |-> "piece", doc_type |-> "unknown"]
       [] r = "petition-start"   -> [type |-> "piece", doc_type |-> "peticao"]
       [] r = "sentence-start"   -> [type |-> "piece", doc_type |-> "sentenca"]
       [] r = "acordao-start"    -> [type |-> "piece", doc_type |-> "acordao"]
       [] r = "certidao-start"   -> [type |-> "piece", doc_type |-> "certidao"]
       [] r = "attachment-label" -> [type |-> "attachment", doc_type |-> "attachment"]
       [] r = "despacho"         -> [type |-> "piece", doc_type |-> "despacho"]
       [] r = "decisao"          -> [type |-> "piece", doc_type |-> "decisao-interlocutoria"]
       [] r = "oficio"           -> [type |-> "piece", doc_type |-> "oficio"]
       [] r = "blank-page"       -> [type |-> "separator", doc_type |-> "separator"]]

\* [...markers].sort((a, b) => b.weight - a.weight)[0]: the sort is stable,
\* so the first marker of the greatest weight comes first
TopMarker(markers) ==
  markers[CHOOSE i \in DOMAIN markers :
            \A j \in DOMAIN markers :
              \/ markers[j].weight < markers[i].weight
              \/ markers[j].weight = markers[i].weight /\ j >= i]

\* the profiler classification is usable as a fallback
Usable(classification) ==
  classification # Null /\ classification.confidence >= 20

_inferSegmentType(markers, classification) ==
  IF markers # <<>> /\ TopMarker(markers).rule \in DOMAIN ruleToType
    THEN LET result == ruleToType[TopMarker(markers).rule]
         IN  IF result.doc_type = "unknown" /\ Usable(classification)
               THEN [type |-> result.type,
                     doc_type |-> classification.primary_type,
                     classification_source |-> "profiler-fallback"]
               ELSE [type |-> result.type, doc_type |-> result.doc_type,
                     classification_source |-> "boundary-rules"]
    ELSE IF Usable(classification)
      THEN [type |-> "piece", doc_type |-> classification.primary_type,
            classification_source |-> "profiler-fallback"]
      ELSE [type |-> "piece", doc_type |-> "unknown",
            classification_source |-> "boundary-rules"]

\* Math.max(...markers.map(m => m.weight), 0.5)
MarkerConfidence(markers) ==
  LET ws == {markers[i].weight : i \in DOMAIN markers} \cup {50}
  IN  CHOOSE w \in ws : \A v \in ws : v <= w

\* the locals of segment() before the first page
SegmentStart ==
  [segments |-> <<>>, currentSegment |-> Null, segmentCounter |-> 0,
   prevPageLastParaNum |-> Null]

\* the body of the page loop, with a blank page that does not open a
\* piece left out of the current segment
segmentPageDroppingBlank(st, page, classification) ==
  LET markers == detectBoundaries(page)
      isNew   == \E i \in DOMAIN markers :
                   markers[i].weight >= 70 /\ markers[i].rule # "blank-page"
      isBlank == \E i \in DOMAIN markers : markers[i].rule = "blank-page"
  IN  IF isNew \/ st.currentSegment = Null
        THEN [segments |-> IF st.currentSegment # Null
                             THEN Append(st.segments, st.currentSegment)
                             ELSE st.segments,
              currentSegment |->
                [segment_id |-> st.segmentCounter + 1,
                 type |-> _inferSegmentType(markers, classification).type,
                 doc_type |-> _inferSegmentType(markers, classification).doc_type,
                 classification_source |->
                   _inferSegmentType(markers, classification).classification_source,
                 page_start |-> page.page_number,
                 page_end |-> page.page_number,
                 confidence |-> MarkerConfidence(markers),
                 boundary_markers |-> markers],
              segmentCounter |-> st.segmentCounter + 1,
              prevPageLastParaNum |-> st.prevPageLastParaNum]
        ELSE IF isBlank
          THEN st
          ELSE [st EXCEPT !.currentSegment.page_end = page.page_number]

\* the body of the page loop of segment()
segmentPage(st, page, classification) ==
  LET markers  == detectBoundaries(page)
      hasPiece == \E i \in DOMAIN markers :
                    markers[i].weight >= 70 /\ markers[i].rule # "blank-page"
      isBlank  == \E i \in DOMAIN markers : markers[i].rule = "blank-page"
      hasStrongStructural == \E i \in DOMAIN markers : markers[i].weight >= 85
      continues ==
        /\ hasPiece
        /\ st.currentSegment # Null
        /\ st.prevPageLastParaNum # Null
        /\ ~hasStrongStructural
        /\ page.firstParaNum # Null
        /\ page.firstParaNum.n = st.prevPageLastParaNum.n + 1
      isNewPiece == hasPiece /\ ~continues
      prev == IF page.lastParaNum # Null
                THEN page.lastParaNum ELSE st.prevPageLastParaNum
      segType == _inferSegmentType(markers, classification)
  IN  IF isNewPiece \/ st.currentSegment = Null
        THEN [segments |-> IF st.currentSegment # Null
                             THEN Append(st.segments, st.currentSegment)
                             ELSE st.segments,
              currentSegment |->
                [segment_id |-> st.segmentCounter + 1,
                 type |-> segType.type,
                 doc_type |-> segType.doc_type,
                 classification_source |-> segType.classification_source,
                 page_start |-> page.page_number,
                 page_end |-> page.page_number,
                 confidence |-> MarkerConfidence(markers),
                 boundary_markers |-> markers],
              segmentCounter |-> st.segmentCounter + 1,
              prevPageLastParaNum |-> prev]
        ELSE IF isBlank
          THEN [st EXCEPT !.currentSegment.page_end = page.page_number,
                          !.prevPageLastParaNum = prev]
          ELSE [st EXCEPT !.currentSegment.page_end = page.page_number,
                          !.prevPageLastParaNum = prev]

RECURSIVE segmentLoop(_, _, _, _)
segmentLoop(pages, i, st, classification) ==
  IF i > Len(pages)
    THEN st
    ELSE segmentLoop(pages, i + 1,
                     segmentPage(st, pages[i], classification), classification)

\* the pages 1..totalPages that no segment covers
_validateCoverage(segments, totalPages) ==
  LET coveredPages == UNION {segments[i].page_start .. segments[i].page_end :
                               i \in DOMAIN segments}
  IN  {p \in 1 .. totalPages : p \notin coveredPages}

segment(extractedData) ==
  IF Len(extractedData.pages) = 0
    THEN <<>>
    ELSE LET st == segmentLoop(extractedData.pages, 1, SegmentStart,
                               extractedData.classification)
         IN  IF st.currentSegment # Null
               THEN Append(st.segments, st.currentSegment)
               ELSE st.segments

\* what a page's text can give: the rules matching its heading, a short
\* cleaned text, its first and last paragraph number
ParaNums == {Null, [n |-> 1], [n |-> 2]}

PageTexts ==
  {t \in [heading : {{}, {"petition-start"}, {"despacho"}, {"process-number"},
                     {"court-header"}},
          short : BOOLEAN, firstParaNum : ParaNums, lastParaNum : ParaNums] :
     /\ t.firstParaNum = t.lastParaNum
     /\ t.short => t.firstParaNum = Null}

\* the extracted documents: pages numbered 1..N in order
ExtractedDocs ==
  {[pages |-> [i \in DOMAIN ts |->
                 [page_number |-> i, heading |-> ts[i].heading,
                  short |-> ts[i].short, firstParaNum |-> ts[i].firstParaNum,
                  lastParaNum |-> ts[i].lastParaNum]],
    classification |-> c] :
     ts \in UNION {[1 .. n -> PageTexts] : n \in 0 .. MaxPages},
     c \in {Null, [primary_type |-> "sentenca", confidence |-> 10],
            [primary_type |-> "sentenca", confidence |-> 50]}}

\* a process that only calls a worker: the orchestrator stays idle
Idle == InitPipeline /\ input = CHOOSE i \in Inputs : TRUE

InitSegment ==
  /\ Idle
  /\ \E d \in ExtractedDocs :
       fn = [kind |-> "segment", arg |-> d, called |-> FALSE]

\* segmenter.segment(extractedData)
SegmentCall ==
  /\ fn.kind = "segment" /\ ~fn.called
  /\ fn' = [fn EXCEPT !.called = TRUE] @@
           [segments |-> segment(fn.arg),
            orphans |-> _validateCoverage(segment(fn.arg), Len(fn.arg.pages))]
  /\ UNCHANGED <<batchReport, input, disk, pc, mode, exitCode, interrupted, runs, cur,
                 outDir, pdfPath, resumeCheckpoint, mem, ret, pipelineResults,
                 log, execLog>>

NextSegment == SegmentCall

SpecSegment == InitSegment /\ [][NextSegment]_vars

\* the pages of the called document, and the segments returned
SegPages == fn.arg.pages
SegRange(sg) == sg.page_start .. sg.page_end
SegDone == fn.kind = "segment" /\ fn.called
BlankPage(page) == page.short

\* C13: for one PDF, the page ranges of the non-separator segments cover
\* 1..page_count exactly, without gap or overlap, whatever the pages are,
\* documents that begin with or contain blank pages included.
C13_NonSeparatorCoverage ==
  SegDone =>
    LET pieces == {i \in DOMAIN fn.segments : fn.segments[i].type # "separator"}
    IN  /\ UNION {SegRange(fn.segments[i]) : i \in pieces} = 1 .. Len(SegPages)
        /\ \A i, j \in pieces :
             i # j => SegRange(fn.segments[i]) \cap SegRange(fn.segments[j]) = {}

\* C14: after segment() on pages numbered 1..N, every page 1..N lies in
\* the range of exactly one segment, and no page is reported as an orphan.
C14_ExactlyOneSegment ==
  SegDone =>
    /\ \A p \in 1 .. Len(SegPages) :
         Cardinality({i \in DOMAIN fn.segments : p \in SegRange(fn.segments[i])}) = 1
    /\ \A i \in DOMAIN fn.segments :
         SegRange(fn.segments[i]) # {} /\ SegRange(fn.segments[i]) \subseteq 1 .. Len(SegPages)
    /\ fn.orphans = {}

\* a document with a blank page after the first and more than one segment
C14_Witness ==
  /\ SegDone
  /\ Len(SegPages) = MaxPages
  /\ Len(fn.segments) >= 2
  /\ \E i \in DOMAIN SegPages : i > 1 /\ BlankPage(SegPages[i])

\* C15: a blank page (cleaned text shorter than the threshold) never opens
\* a segment: no segment has page_start equal to a blank page.
C15_BlankNeverOpens ==
  SegDone =>
    \A i \in DOMAIN SegPages :
      BlankPage(SegPages[i]) =>
        \A k \in DOMAIN fn.segments : fn.segments[k].page_start # SegPages[i].page_number

\* ------------------------------------------------------------------
\* PDFIngester (pdf-ingester.js): intake, fingerprinting, deduplication.
\* A file name is its stem and its extension; a content is its first
\* 4 KB and the rest; a path is the sequence of its components.
\* Timestamps (generated_at, timestamp, modified) are left out.
\* ------------------------------------------------------------------

MaxEntries == 3

\* String.prototype.toLowerCase on the extensions in use
ToLowerCase(ext) ==
  CASE ext = "PDF" -> "pdf"
    [] OTHER -> ext

\* entry.name.toLowerCase().endsWith('.pdf')
EndsWithPdf(name) == ToLowerCase(name.ext) = "pdf"

\* crypto.createHash('sha256') over the whole file / over bytes 0..4095
hashFile(content) == <<"sha256", content.head, content.tail>>
partialHash(content) == <<"sha256", content.head>>

\* the entries a source directory can hold
EntryPool ==
  {[name |-> [stem |-> "a", ext |-> "pdf"], type |-> "file", readable |-> TRUE,
    content |-> [head |-> "h1", tail |-> "t1"]],
   [name |-> [stem |-> "b", ext |-> "pdf"], type |-> "file", readable |-> TRUE,
    content |-> [head |-> "h1", tail |-> "t1"]],
   [name |-> [stem |-> "c", ext |-> "PDF"], type |-> "file", readable |-> TRUE,
    content |-> [head |-> "h1", tail |-> "t2"]],
   [name |-> [stem |-> "c", ext |-> "PDF"], type |-> "file", readable |-> FALSE,
    content |-> [head |-> "h1", tail |-> "t2"]],
   [name |-> [stem |-> "notes", ext |-> "txt"], type |-> "file", readable |-> TRUE,
    content |-> [head |-> "h3", tail |-> "t3"]],
   [name |-> [stem |-> "sub", ext |-> ""], type |-> "dir", readable |-> TRUE,
    listing |-> <<[name |-> [stem |-> "d", ext |-> "pdf"], type |-> "file",
                   readable |-> TRUE,
                   content |-> [head |-> "h1", tail |-> "t2"]]>>],
   [name |-> [stem |-> "sub", ext |-> ""], type |-> "dir", readable |-> FALSE,
    listing |-> <<>>]}

\* what sourcePath can name: nothing, one file, a directory of entries
\* with distinct names
Sources ==
  {[type |-> "missing"]}
  \cup {[type |-> "file", file |-> e] : e \in {x \in EntryPool : x.type = "file"}}
  \cup {[type |-> "dir", entries |-> es] :
          es \in {x \in SUBSET EntryPool :
                    /\ Cardinality(x) <= MaxEntries
                    /\ \A e1, e2 \in x : e1.name = e2.name => e1 = e2}}

\* the orders in which fs.readdirSync can list a set of entries
Listings(es) ==
  {l \in [1 .. Cardinality(es) -> es] :
     \A i, j \in 1 .. Cardinality(es) : l[i] = l[j] => i = j}

\* scanDirectory over a listing: the PDF paths found, each with the file
\* the file system holds there, or the error readdirSync threw
RECURSIVE scanDirectory(_, _, _)
scanDirectory(dirPath, entries, recursive) ==
  IF entries = <<>>
    THEN [threw |-> FALSE, pdfs |-> <<>>]
    ELSE
      LET entry    == Head(entries)
          fullPath == Append(dirPath, entry.name)
          here ==
            IF entry.type = "file" /\ EndsWithPdf(entry.name)
              THEN [threw |-> FALSE, pdfs |-> <<[path |-> fullPath, file |-> entry]>>]
              ELSE IF entry.type = "dir" /\ recursive
                THEN IF entry.readable
                       THEN scanDirectory(fullPath, entry.listing, recursive)
                       ELSE [threw |-> TRUE, pdfs |-> <<>>]
                ELSE [threw |-> FALSE, pdfs |-> <<>>]
          rest == scanDirectory(dirPath, Tail(entries), recursive)
      IN  IF here.threw \/ rest.threw
            THEN [threw |-> TRUE, pdfs |-> <<>>]
            ELSE [threw |-> FALSE, pdfs |-> here.pdfs \o rest.pdfs]

\* ingestFile: metadata and both hashes, or the error of an unreadable file
ingestFile(item) ==
  IF item.file.readable
    THEN [threw |-> FALSE,
          name |-> item.file.name, source_path |-> item.path,
          hash |-> hashFile(item.file.content),
          partial_hash |-> partialHash(item.file.content)]
    ELSE [threw |-> TRUE, name |-> item.file.name]

\* one turn of the loop of ingest() that registers every file
ingestOneNoDedup(acc, item, dedup) ==
  LET result == ingestFile(item)
  IN  IF result.threw
        THEN [acc EXCEPT !.errors =
                Append(@, [name |-> result.name, error_message |-> "EACCES"])]
        ELSE [acc EXCEPT
                !.fingerprintDB = (result.hash :> result.source_path) @@ @,
                !.files = Append(@, [name |-> result.name,
                                     source_path |-> result.source_path,
                                     hash |-> result.hash,
                                     partial_hash |-> result.partial_hash])]

\* one turn of the loop of ingest()
ingestOne(acc, item, dedup) ==
  LET result == ingestFile(item)
  IN  IF result.threw
        THEN [acc EXCEPT !.errors =
                Append(@, [name |-> result.name, error_message |-> "EACCES"])]
        ELSE IF dedup /\ result.hash \in DOMAIN acc.fingerprintDB
          THEN [acc EXCEPT !.duplicates =
                  Append(@, [name |-> result.name, hash |-> result.hash,
                             original_path |-> acc.fingerprintDB[result.hash]])]
          ELSE [acc EXCEPT
                  !.fingerprintDB = (result.hash :> result.source_path) @@ @,
                  !.files = Append(@, [name |-> result.name,
                                       source_path |-> result.source_path,
                                       hash |-> result.hash,
                                       partial_hash |-> result.partial_hash])]

RECURSIVE ingestLoop(_, _, _, _)
ingestLoop(pdfPaths, i, acc, dedup) ==
  IF i > Len(pdfPaths)
    THEN acc
    ELSE ingestLoop(pdfPaths, i + 1, ingestOne(acc, pdfPaths[i], dedup), dedup)

\* ingest(sourcePath) on an ingester whose fingerprint table is db, the
\* directory being listed in the order of listing: the manifest and the
\* new table, or the error thrown
ingest(source, listing, db, dedup, recursive) ==
  IF source.type = "missing"
    THEN [threw |-> TRUE, error |-> "ENOENT", fingerprintDB |-> db]
    ELSE
      LET scan == IF source.type = "dir"
                    THEN scanDirectory(<<"in">>, listing, recursive)
                    ELSE [threw |-> FALSE,
                          pdfs |-> <<[path |-> <<source.file.name>>,
                                      file |-> source.file]>>]
          acc  == ingestLoop(scan.pdfs, 1,
                             [files |-> <<>>, duplicates |-> <<>>,
                              errors |-> <<>>, fingerprintDB |-> db], dedup)
      IN  IF scan.threw
            THEN [threw |-> TRUE, error |-> "EACCES", fingerprintDB |-> db]
            ELSE [threw |-> FALSE,
                  pdfPaths |-> scan.pdfs,
                  fingerprintDB |-> acc.fingerprintDB,
                  manifest |->
                    [summary |-> [total_scanned |-> Len(scan.pdfs),
                                  registered |-> Len(acc.files),
                                  duplicates |-> Len(acc.duplicates),
                                  errors |-> Len(acc.errors)],
                     files |-> acc.files,
                     duplicates |-> acc.duplicates,
                     errors |-> acc.errors]]

\* new Map()
EmptyDB == [h \in {} |-> <<>>]

SourceListings(source) ==
  IF source.type = "dir" THEN Listings(source.entries) ELSE {<<>>}

InitIngest ==
  /\ Idle
  /\ \E src \in Sources, dedup \in BOOLEAN, recursive \in BOOLEAN :
       fn = [kind |-> "ingest", source |-> src, dedup |-> dedup,
             recursive |-> recursive, first |-> Null, second |-> Null,
             reused |-> FALSE]

\* new PDFIngester(options).ingest(sourcePath)
IngestCall ==
  /\ fn.kind = "ingest" /\ fn.first = Null
  /\ \E l \in SourceListings(fn.source) :
       fn' = [fn EXCEPT !.first =
                ingest(fn.source, l, EmptyDB, fn.dedup, fn.recursive)]
  /\ UNCHANGED <<batchReport, input, disk, pc, mode, exitCode, interrupted, runs, cur,
                 outDir, pdfPath, resumeCheckpoint, mem, ret, pipelineResults,
                 log, execLog>>

\* stage 1 run again on the unchanged source, by a new ingester
IngestAgain ==
  /\ fn.kind = "ingest" /\ fn.first # Null /\ fn.second = Null
  /\ \E l \in SourceListings(fn.source) :
       fn' = [fn EXCEPT !.second =
                ingest(fn.source, l, EmptyDB, fn.dedup, fn.recursive)]
  /\ UNCHANGED <<batchReport, input, disk, pc, mode, exitCode, interrupted, runs, cur,
                 outDir, pdfPath, resumeCheckpoint, mem, ret, pipelineResults,
                 log, execLog>>

\* ingest() called again on the same ingester: its table is kept
IngestReuse ==
  /\ fn.kind = "ingest" /\ fn.first # Null /\ fn.second = Null
  /\ \E l \in SourceListings(fn.source) :
       fn' = [fn EXCEPT !.second =
                ingest(fn.source, l, fn.first.fingerprintDB, fn.dedup,
                       fn.recursive),
              !.reused = TRUE]
  /\ UNCHANGED <<batchReport, input, disk, pc, mode, exitCode, interrupted, runs, cur,
                 outDir, pdfPath, resumeCheckpoint, mem, ret, pipelineResults,
                 log, execLog>>

NextIngest == IngestCall \/ IngestAgain \/ IngestReuse

SpecIngest == InitIngest /\ [][NextIngest]_vars

\* the calls that returned a manifest, each with the PDF paths the same
\* ingester had already processed before the call
IngestReturned ==
  {x \in {[r |-> fn.first, prior |-> <<>>],
          [r |-> fn.second,
           prior |-> IF fn.reused /\ ~fn.first.threw
                       THEN fn.first.pdfPaths ELSE <<>>]} :
     x.r # Null /\ ~x.r.threw}

\* the file at pdfPaths[i] was hashed and its hash is h
HashedAs(item, h) == item.file.readable /\ hashFile(item.file.content) = h

\* the path of the first file with hash h that the ingester hashed
FirstSeenPath(items, h) ==
  items[CHOOSE i \in DOMAIN items :
          /\ HashedAs(items[i], h)
          /\ \A j \in 1 .. i - 1 : ~HashedAs(items[j], h)].path

\* C16: with dedup enabled the full hashes of manifest.files are pairwise
\* distinct; a file whose hash was already registered is not in files but
\* in duplicates, with original_path the path of the first-seen file of
\* that hash.
C16_DedupDistinct ==
  (fn.kind = "ingest" /\ fn.dedup) =>
    \A x \in IngestReturned :
      LET m   == x.r.manifest
          all == x.prior \o x.r.pdfPaths
      IN  /\ \A i, j \in DOMAIN m.files :
               i # j => m.files[i].hash # m.files[j].hash
          /\ \A k \in DOMAIN x.r.pdfPaths :
               LET it == x.r.pdfPaths[k]
                   h  == hashFile(it.file.content)
               IN  (/\ it.file.readable
                    /\ \E j \in 1 .. Len(x.prior) + k - 1 : HashedAs(all[j], h))
                     => /\ \A i \in DOMAIN m.files : m.files[i].source_path # it.path
                        /\ \E i \in DOMAIN m.duplicates :
                             /\ m.duplicates[i].name = it.file.name
                             /\ m.duplicates[i].hash = h
                             /\ m.duplicates[i].original_path = FirstSeenPath(all, h)
          /\ \A i \in DOMAIN m.duplicates :
               m.duplicates[i].original_path = FirstSeenPath(all, m.duplicates[i].hash)

\* a directory with two files of one content and a third of another
C16_Witness ==
  /\ fn.kind = "ingest" /\ fn.dedup
  /\ fn.first # Null /\ ~fn.first.threw
  /\ Len(fn.first.manifest.duplicates) >= 1
  /\ Len(fn.first.manifest.files) >= 2

\* the entries of the source that intake has to look at
SourceEntries ==
  IF fn.source.type = "dir"
    THEN fn.source.entries
         \cup UNION {{e.listing[i] : i \in DOMAIN e.listing} :
                       e \in {x \in fn.source.entries :
                                x.type = "dir" /\ x.readable /\ fn.recursive}}
    ELSE IF fn.source.type = "file" THEN {fn.source.file} ELSE {}

\* an input failure: an unreadable file or directory, a file that is no PDF
InputFailure(e) ==
  \/ ~e.readable /\ (e.type = "file" \/ fn.recursive)
  \/ e.type = "file" /\ ~EndsWithPdf(e.name)

\* C17: an input failure during intake (missing source, unreadable file or
\* directory entry, non-PDF) is recorded in manifest.errors and never
\* aborts intake: ingest() returns a manifest and every other PDF is
\* registered.
C17_FailuresRecorded ==
  fn.kind = "ingest" =>
    \A r \in {fn.first, fn.second} \ {Null} :
      /\ ~r.threw
      /\ fn.source.type = "missing" => Len(r.manifest.errors) >= 1
      /\ \A e \in SourceEntries :
           IF InputFailure(e)
             THEN \E i \in DOMAIN r.manifest.errors :
                    r.manifest.errors[i].name = e.name
             ELSE e.type = "file" =>
                    \/ \E i \in DOMAIN r.manifest.files :
                         r.manifest.files[i].name = e.name
                    \/ \E i \in DOMAIN r.manifest.duplicates :
                         r.manifest.duplicates[i].name = e.name

\* the code-unit order of the names in use
StemRank(stem) ==
  CHOOSE i \in 1 .. 6 : <<"a", "b", "c", "d", "notes", "sub">>[i] = stem

\* path p sorts before path q (paths of one source directory)
PathBefore(p, q) == StemRank(p[2].stem) < StemRank(q[2].stem)

\* C18: intake run twice on the same unchanged directory yields the same
\* manifest (timestamps apart): the same files in the same lexicographic
\* order, the same duplicates and errors, whatever the listing order.
C18_SameManifestTwice ==
  (/\ fn.kind = "ingest" /\ fn.source.type = "dir"
   /\ fn.second # Null /\ ~fn.reused
   /\ ~fn.first.threw /\ ~fn.second.threw)
    => /\ fn.first.manifest = fn.second.manifest
       /\ \A i, j \in DOMAIN fn.first.manifest.files :
            i < j => PathBefore(fn.first.manifest.files[i].source_path,
                                fn.first.manifest.files[j].source_path)

\* ------------------------------------------------------------------
\* Batch report and batch output layout
\* ------------------------------------------------------------------

\* the QC counters of the batch report
QCCounters == {"passed", "flagged", "rejected", "mislabels_caught"}

\* the QC summaries of the PDFs the batch processed
ProcessedQC ==
  LET reports == ReportsOf(pipelineResults)
  IN  [i \in DOMAIN reports |-> reports[i].qc]

\* C19: the batch report's passed, flagged, rejected and mislabels_caught
\* each equal the sum of that QC counter over all PDFs processed in the
\* batch, never the last PDF's value only.
C19_BatchReportSums ==
  (batchReport # Absent /\ pc = "exited" /\ runs = 1) =>
    \A c \in QCCounters :
      /\ c \in DOMAIN batchReport.data
      /\ batchReport.data[c] = SumOf(ProcessedQC, c)

\* C20: in batch mode two distinct source PDFs never share an output
\* location: once the report of one PDF is written in a subfolder, no
\* file of that subfolder is written again while the batch runs.
C20_OwnOutputLocation ==
  [][(mode = "fresh" /\ input.srcMode = "batch" /\ runs = 1)
       => \A d \in Dirs : disk[d].report # Absent => disk'[d] = disk[d]]_vars

\* ------------------------------------------------------------------
\* Stages 5 to 6 on one PDF: segmentation, per-segment classification
\* (L1 in runPipeline, L2 in the end-to-end harness), Markdown export.
\* The text of a segment is described by what these stages read from
\* it: whether it has 50 characters or more, and what
\* DocumentClassifier.classify returns for it (secondary_type "" when
\* classify returns none).
\* ------------------------------------------------------------------

MaxSegPages == 2

VALID_TYPES ==
  {"peticao-inicial", "inicial-eef", "inicial-execfiscal", "inicial-ms",
   "contestacao", "impugnacao", "laudo-pericial", "decisao-interlocutoria",
   "sentenca", "sentenca-edcl", "edcl", "apelacao", "contrarrazoes", "agravo",
   "recurso-especial", "recurso-extraordinario", "acordao", "acordao-trf",
   "distribuicao", "pauta", "auto-infracao", "defesa-admin",
   "impugnacao-admin", "decisao-admin-1inst", "recurso-admin", "recurso-carf",
   "contrarrazoes-admin", "resposta-fazenda", "acordao-carf", "acordao-csrf",
   "cda", "laudo-constitutivo", "documento-fiscal", "parecer-tecnico",
   "despacho", "parecer-mp", "parecer-pgfn", "parecer-agu", "oficio",
   "portaria", "memorando", "certidao", "certidao-publicacao", "lixo",
   "lixo-procuracao", "lixo-societario", "lixo-fianca", "lixo-capa",
   "lixo-certidao-publicacao", "lixo-ato-ordinatorio",
   "lixo-substabelecimento", "lixo-termo-abertura", "unknown"}

\* classify(): a type outside the whitelist is forced to 'unknown'
Whitelisted(type) == IF type \in VALID_TYPES THEN type ELSE "unknown"

\* results of DocumentClassifier.classify on a segment text
ClassifyResults ==
  {[primary_type |-> Whitelisted("unknown"), confidence |-> 0,
    secondary_type |-> "", secondary_confidence |-> 0],
   [primary_type |-> Whitelisted("contestacao"), confidence |-> 25,
    secondary_type |-> "", secondary_confidence |-> 0],
   [primary_type |-> Whitelisted("contestacao"), confidence |-> 70,
    secondary_type |-> Whitelisted("peticao-inicial"), secondary_confidence |-> 60],
   [primary_type |-> Whitelisted("peticao-inicial"), confidence |-> 60,
    secondary_type |-> "", secondary_confidence |-> 0]}

SegTexts ==
  {t \in [long : BOOLEAN, cls : ClassifyResults] :
     ~t.long => t.cls.primary_type = "unknown"}

StagePageTexts ==
  {[heading |-> h, short |-> b, firstParaNum |-> Null, lastParaNum |-> Null] :
     h \in {{}, {"petition-start"}, {"court-header"}}, b \in BOOLEAN}

\* the extracted documents handed to stage 5, with the stage-2
\* classification bridged into them
StageDocs ==
  {[pages |-> [i \in DOMAIN ts |->
                 [page_number |-> i, heading |-> ts[i].heading,
                  short |-> ts[i].short, firstParaNum |-> ts[i].firstParaNum,
                  lastParaNum |-> ts[i].lastParaNum]],
    classification |-> c] :
     ts \in UNION {[1 .. n -> StagePageTexts] : n \in 1 .. MaxSegPages},
     c \in {Null, [primary_type |-> "contestacao", confidence |-> 50]}}

\* Stage 5.5 on one segment whose text is t
L1Segment(seg, t) ==
  IF seg.type = "separator" \/ ~t.long
    THEN seg
    ELSE IF t.cls.primary_type # "unknown" /\ t.cls.confidence >= 30
      THEN [seg EXCEPT !.doc_type = t.cls.primary_type,
                       !.classification_source = "per-segment-L1",
                       !.classification_confidence = t.cls.confidence]
      ELSE seg

\* Stage 5.5 over the segments of one file
PerSegmentL1(segments, texts) ==
  [j \in DOMAIN segments |-> L1Segment(segments[j], texts[j])]

\* the segments as stage 5 leaves them: no per-segment confidence yet
\* (0 stands for the missing classification_confidence, which the code
\* reads with || 0.5)
Stage5Segments(d) ==
  LET sg == segment(d)
  IN  [j \in DOMAIN sg |-> sg[j] @@ [classification_confidence |-> 0]]

\* Stage 5.6 (L2, contextual and positional): the fixed tables
TRANSITIONS ==
  [t \in {"inicial-eef", "inicial-execfiscal", "inicial-ms", "peticao-inicial",
          "cda", "laudo-constitutivo", "documento-fiscal", "parecer-tecnico",
          "laudo-pericial", "impugnacao", "contestacao", "sentenca",
          "sentenca-edcl", "edcl", "apelacao", "contrarrazoes", "agravo",
          "recurso-especial", "recurso-extraordinario", "distribuicao",
          "pauta", "acordao", "acordao-trf", "auto-infracao", "defesa-admin",
          "impugnacao-admin", "decisao-admin-1inst", "recurso-admin",
          "recurso-carf", "contrarrazoes-admin", "resposta-fazenda",
          "acordao-carf", "acordao-csrf", "parecer-pgfn", "parecer-agu",
          "parecer-mp"} |->
     CASE t = "inicial-eef" -> {"cda", "laudo-constitutivo", "documento-fiscal",
                                "impugnacao", "decisao-interlocutoria", "despacho"}
       [] t = "inicial-execfiscal" -> {"cda", "documento-fiscal", "despacho",
                                       "decisao-interlocutoria"}
       [] t = "inicial-ms" -> {"decisao-interlocutoria", "contestacao",
                               "impugnacao", "despacho"}
       [] t = "peticao-inicial" -> {"decisao-interlocutoria", "contestacao",
                                    "impugnacao", "despacho", "cda"}
       [] t = "cda" -> {"impugnacao", "decisao-interlocutoria", "despacho",
                        "documento-fiscal", "laudo-constitutivo"}
       [] t = "laudo-constitutivo" -> {"decisao-interlocutoria", "despacho",
                                       "impugnacao", "sentenca", "laudo-constitutivo"}
       [] t = "documento-fiscal" -> {"decisao-interlocutoria", "despacho",
                                     "impugnacao", "laudo-constitutivo",
                                     "documento-fiscal"}
       [] t = "parecer-tecnico" -> {"decisao-interlocutoria", "despacho", "sentenca"}
       [] t = "laudo-pericial" -> {"sentenca", "decisao-interlocutoria", "despacho"}
       [] t = "impugnacao" -> {"decisao-interlocutoria", "sentenca",
                               "laudo-pericial", "despacho"}
       [] t = "contestacao" -> {"sentenca", "decisao-interlocutoria",
                                "laudo-pericial", "despacho"}
       [] t = "sentenca" -> {"edcl", "apelacao", "sentenca-edcl", "certidao-publicacao"}
       [] t = "sentenca-edcl" -> {"apelacao", "edcl", "certidao-publicacao"}
       [] t = "edcl" -> {"sentenca-edcl", "sentenca", "acordao", "acordao-trf"}
       [] t = "apelacao" -> {"contrarrazoes", "acordao", "acordao-trf", "distribuicao"}
       [] t = "contrarrazoes" -> {"acordao", "acordao-trf", "distribuicao", "pauta"}
       [] t = "agravo" -> {"decisao-interlocutoria", "despacho"}
       [] t = "recurso-especial" -> {"acordao", "contrarrazoes"}
       [] t = "recurso-extraordinario" -> {"acordao", "contrarrazoes"}
       [] t = "distribuicao" -> {"pauta", "acordao", "acordao-trf"}
       [] t = "pauta" -> {"acordao", "acordao-trf"}
       [] t = "acordao" -> {"edcl", "recurso-especial", "recurso-extraordinario",
                            "certidao-publicacao"}
       [] t = "acordao-trf" -> {"edcl", "recurso-especial", "recurso-extraordinario",
                                "certidao-publicacao"}
       [] t = "auto-infracao" -> {"defesa-admin", "impugnacao-admin",
                                  "decisao-interlocutoria"}
       [] t = "defesa-admin" -> {"decisao-admin-1inst", "decisao-interlocutoria"}
       [] t = "impugnacao-admin" -> {"decisao-admin-1inst", "decisao-interlocutoria"}
       [] t = "decisao-admin-1inst" -> {"recurso-admin", "recurso-carf"}
       [] t = "recurso-admin" -> {"contrarrazoes-admin", "resposta-fazenda",
                                  "acordao-carf"}
       [] t = "recurso-carf" -> {"contrarrazoes-admin", "resposta-fazenda",
                                 "acordao-carf"}
       [] t = "contrarrazoes-admin" -> {"acordao-carf"}
       [] t = "resposta-fazenda" -> {"acordao-carf"}
       [] t = "acordao-carf" -> {"acordao-csrf", "edcl", "recurso-especial"}
       [] t = "acordao-csrf" -> {"edcl", "recurso-especial"}
       [] t = "parecer-pgfn" -> {"sentenca", "decisao-interlocutoria", "acordao",
                                 "despacho"}
       [] t = "parecer-agu" -> {"sentenca", "decisao-interlocutoria", "acordao",
                                "despacho"}
       [] t = "parecer-mp" -> {"sentenca", "decisao-interlocutoria", "despacho"}]

NEUTRAL_TYPES ==
  {"despacho", "decisao-interlocutoria", "certidao", "certidao-publicacao",
   "oficio", "portaria", "memorando", "parecer-tecnico", "lixo",
   "lixo-procuracao", "lixo-substabelecimento", "lixo-societario",
   "lixo-fianca", "lixo-capa", "lixo-certidao-publicacao",
   "lixo-ato-ordinatorio", "lixo-termo-abertura", "unknown"}

RESPONSE_TYPES ==
  {"impugnacao", "contestacao", "contrarrazoes", "contrarrazoes-admin",
   "defesa-admin", "impugnacao-admin", "resposta-fazenda", "sentenca-edcl"}

INITIATOR_TYPES ==
  {"inicial-eef", "inicial-execfiscal", "inicial-ms", "peticao-inicial",
   "auto-infracao"}

\* currentType.startsWith('inicial-'), over the types of the tables
StartsWithInicial(type) == type \in {"inicial-eef", "inicial-execfiscal", "inicial-ms"}

\* TRANSITIONS[prevType] && TRANSITIONS[prevType].includes(type)
ProbableAfter(prevType, type) ==
  prevType \in DOMAIN TRANSITIONS /\ type \in TRANSITIONS[prevType]

\* the boost of segment j (0-based among the piece segments) of type
\* currentType after prevType ("" when there is none)
l2Boost(j, prevType, currentType, currentConfidence, pdfType, assigned) ==
  (IF prevType # "" /\ currentType \notin NEUTRAL_TYPES
      /\ prevType \notin NEUTRAL_TYPES /\ prevType \in DOMAIN TRANSITIONS
   THEN IF currentType \in TRANSITIONS[prevType] THEN 15
        ELSE IF currentType \in INITIATOR_TYPES THEN -20 ELSE 0
   ELSE 0)
  + (IF j = 0 /\ currentType \in RESPONSE_TYPES THEN -15 ELSE 0)
  + (IF j = 0 /\ currentType \in INITIATOR_TYPES THEN 10 ELSE 0)
  + (IF StartsWithInicial(currentType) /\ currentType \in assigned THEN -25 ELSE 0)
  + (IF currentType = "inicial-eef" /\ pdfType = "inicial-eef" THEN 5 ELSE 0)
  + (IF currentType = pdfType /\ currentConfidence < 80 THEN 10 ELSE 0)

\* the body of the loop over the piece segments: segment seg, whose text
\* is t, at position j after prevType
l2Segment(seg, t, j, prevType, pdfClassification, assigned) ==
  LET pdfType == IF pdfClassification = Null THEN "" ELSE pdfClassification.primary_type
      currentType == seg.doc_type
      currentConfidence == IF seg.classification_confidence = 0 THEN 50
                           ELSE seg.classification_confidence
      boost == l2Boost(j, prevType, currentType, currentConfidence, pdfType, assigned)
      clamped == currentConfidence + boost
      newConfidence == IF clamped > 100 THEN 100 ELSE IF clamped < 0 THEN 0 ELSE clamped
      secType == t.cls.secondary_type
      secBoost == (IF prevType # "" /\ ProbableAfter(prevType, secType) THEN 15 ELSE 0)
                  + (IF j = 0 /\ secType \in INITIATOR_TYPES THEN 10 ELSE 0)
      boostedSecondary == IF t.cls.secondary_confidence + secBoost > 100 THEN 100
                          ELSE t.cls.secondary_confidence + secBoost
      reclassified ==
        /\ newConfidence < currentConfidence /\ newConfidence < 50
        /\ t.long
        /\ secType # "" /\ secType # "unknown"
        /\ boostedSecondary > newConfidence
  IN IF currentType = "unknown" THEN seg
     ELSE IF currentType = "inicial-execfiscal" /\ pdfType = "inicial-eef"
     THEN [seg EXCEPT !.doc_type = "inicial-eef",
                      !.classification_confidence =
                         IF currentConfidence > pdfClassification.confidence
                         THEN currentConfidence ELSE pdfClassification.confidence,
                      !.classification_source = "per-segment-L2"]
     ELSE IF boost = 0 THEN seg
     ELSE IF reclassified
     THEN [seg EXCEPT !.doc_type = secType,
                      !.classification_confidence = boostedSecondary,
                      !.classification_source = "per-segment-L2"]
     ELSE [seg EXCEPT !.classification_confidence = newConfidence,
                      !.classification_source = "per-segment-L2"]

\* the indices of the non-separator segments, in order
RECURSIVE pieceIndices(_, _)
pieceIndices(segments, from) ==
  IF from > Len(segments) THEN <<>>
  ELSE IF segments[from].type # "separator"
  THEN <<from>> \o pieceIndices(segments, from + 1)
  ELSE pieceIndices(segments, from + 1)

\* the loop: the segments are updated in place, so the previous type is
\* the one L2 left on the previous piece segment
RECURSIVE l2Loop(_, _, _, _, _)
l2Loop(k, segments, texts, pdfClassification, assigned) ==
  LET pieces == pieceIndices(segments, 1)
  IN IF k > Len(pieces) THEN segments
     ELSE LET i == pieces[k]
              seg == segments[i]
              prevType == IF k > 1 THEN segments[pieces[k - 1]].doc_type ELSE ""
              updated == l2Segment(seg, texts[i], k - 1, prevType,
                                   pdfClassification, assigned)
              assigned1 == IF seg.doc_type # "unknown" /\ StartsWithInicial(seg.doc_type)
                           THEN assigned \cup {seg.doc_type} ELSE assigned
          IN l2Loop(k + 1, [segments EXCEPT ![i] = updated], texts,
                    pdfClassification, assigned1)

\* Stage 5.6 over the segments of one file
PerSegmentL2(segments, texts, pdfClassification) ==
  l2Loop(1, segments, texts, pdfClassification, {})

\* a file name without the running number
generateFilenameNoNum(seg, index) ==
  [num |-> 0, type |-> seg.type, doc_type |-> seg.doc_type, ext |-> "md"]

\* generateFilename: {NNN}-{segment_type}-{doc_type}.md
generateFilename(seg, index) ==
  [num |-> index + 1, type |-> seg.type, doc_type |-> seg.doc_type, ext |-> "md"]

\* exportSegment: the entry returned for the index
exportSegment(seg, index) ==
  [file |-> generateFilename(seg, index), segment_id |-> seg.segment_id,
   doc_type |-> seg.doc_type, pages |-> <<seg.page_start, seg.page_end>>,
   confidence |-> seg.confidence]

\* exportAll: the files written and the index
exportAll(segments) ==
  [files |-> [j \in DOMAIN segments |-> exportSegment(segments[j], j - 1)]]

\* the file generateIndex writes beside the segment files
IndexMd == [name |-> "INDEX", ext |-> "md"]

\* what an earlier export may have left in the markdown directory
StaleDirs ==
  {{}, {[num |-> 1, type |-> "piece", doc_type |-> "sentenca", ext |-> "md"],
        [num |-> 2, type |-> "piece", doc_type |-> "sentenca", ext |-> "md"]}}

InitStages ==
  /\ Idle
  /\ \E d \in StageDocs, dir \in StaleDirs :
       \E texts \in [DOMAIN segment(d) -> SegTexts] :
         fn = [kind |-> "stages", arg |-> d, texts |-> texts, stage |-> "4",
               segments |-> <<>>, applied |-> 0,
               once |-> <<>>, before |-> dir, markdown |-> dir,
               index |-> Null]

\* runPipeline, stage 5 for one file
SegmentStage ==
  /\ fn.kind = "stages" /\ fn.stage = "4"
  /\ fn' = [fn EXCEPT !.stage = "5", !.segments = Stage5Segments(fn.arg)]
  /\ UNCHANGED <<batchReport, input, disk, pc, mode, exitCode, interrupted,
                 runs, cur, outDir, pdfPath, resumeCheckpoint, mem, ret,
                 pipelineResults, log, execLog>>

\* runPipeline, stage 5.5
L1Call ==
  /\ fn.kind = "stages" /\ fn.stage = "5"
  /\ fn' = [fn EXCEPT !.stage = "5.5",
                      !.segments = PerSegmentL1(fn.segments, fn.texts)]
  /\ UNCHANGED <<batchReport, input, disk, pc, mode, exitCode, interrupted,
                 runs, cur, outDir, pdfPath, resumeCheckpoint, mem, ret,
                 pipelineResults, log, execLog>>

\* runPipeline, stage 6 for one file: exportAll, then generateIndex
\* (whose failure is caught and only logged)
ExportCall ==
  /\ fn.kind = "stages" /\ fn.stage \in {"5.5", "5.6"}
  /\ \E indexMdWritten \in BOOLEAN :
       LET exported == exportAll(fn.segments)
           written  == {exported.files[j].file : j \in DOMAIN exported.files}
       IN  fn' = [fn EXCEPT
                    !.stage = "6",
                    !.index = exported,
                    !.markdown = @ \cup written
                                   \cup (IF indexMdWritten THEN {IndexMd} ELSE {})]
  /\ UNCHANGED <<batchReport, input, disk, pc, mode, exitCode, interrupted,
                 runs, cur, outDir, pdfPath, resumeCheckpoint, mem, ret,
                 pipelineResults, log, execLog>>

\* stage 5.6
L2Call ==
  /\ fn.kind = "stages" /\ fn.stage = "5.5"
  /\ LET out == PerSegmentL2(fn.segments, fn.texts, fn.arg.classification)
     IN fn' = [fn EXCEPT !.stage = "5.6", !.segments = out, !.once = out,
                         !.applied = 1]
  /\ UNCHANGED <<batchReport, input, disk, pc, mode, exitCode, interrupted,
                 runs, cur, outDir, pdfPath, resumeCheckpoint, mem, ret,
                 pipelineResults, log, execLog>>

\* stage 5.6 applied to its own result
L2Again ==
  /\ fn.kind = "stages" /\ fn.stage = "5.6" /\ fn.applied = 1
  /\ fn' = [fn EXCEPT !.segments = PerSegmentL2(fn.segments, fn.texts,
                                                fn.arg.classification),
                      !.applied = 2]
  /\ UNCHANGED <<batchReport, input, disk, pc, mode, exitCode, interrupted,
                 runs, cur, outDir, pdfPath, resumeCheckpoint, mem, ret,
                 pipelineResults, log, execLog>>

NextStages == SegmentStage \/ L1Call \/ L2Call \/ L2Again \/ ExportCall

SpecStages == InitStages /\ [][NextStages]_vars

\* C21: at every stage boundary from stage 5 on (after segmentation,
\* after 5.5, after 5.6, in the exported index) every segment's doc_type
\* is a member of VALID_TYPES.
C21_DocTypesWhitelisted ==
  fn.kind = "stages" =>
    /\ \A j \in DOMAIN fn.segments : fn.segments[j].doc_type \in VALID_TYPES
    /\ fn.index # Null =>
         \A j \in DOMAIN fn.index.files : fn.index.files[j].doc_type \in VALID_TYPES

\* the files the index names
IndexedFiles == {fn.index.files[j].file : j \in DOMAIN fn.index.files}

Exported == fn.kind = "stages" /\ fn.stage = "6"

\* C22 as stated: at the end of stage 6 the .md files of the markdown
\* directory and the entries of index.json are in one-to-one
\* correspondence.
C22_Original ==
  Exported =>
    /\ \A f \in fn.markdown :
         Cardinality({j \in DOMAIN fn.index.files : fn.index.files[j].file = f}) = 1
    /\ \A j \in DOMAIN fn.index.files : fn.index.files[j].file \in fn.markdown
    /\ \A j, k \in DOMAIN fn.index.files :
         j # k => fn.index.files[j].file # fn.index.files[k].file

\* C22 amended: the index has one entry per segment, the entries name
\* pairwise distinct .md files that exist in the directory, and the only
\* .md files without an entry are INDEX.md and files that were in the
\* directory before the export.
C22_Amended ==
  Exported =>
    /\ Len(fn.index.files) = Len(fn.segments)
    /\ \A j \in DOMAIN fn.index.files :
         /\ fn.index.files[j].file \in fn.markdown
         /\ fn.index.files[j].segment_id = fn.segments[j].segment_id
    /\ \A j, k \in DOMAIN fn.index.files :
         j # k => fn.index.files[j].file # fn.index.files[k].file
    /\ fn.markdown \ IndexedFiles \subseteq {IndexMd} \cup fn.before

\* two segments exported into an empty directory, INDEX.md written
C22_Witness ==
  /\ Exported
  /\ Len(fn.segments) >= 2
  /\ fn.before = {}
  /\ IndexMd \in fn.markdown

\* ------------------------------------------------------- review_needed
\* runQualityGate gave some file of the PDF the status flagged or rejected
QCFlaggedOrRejected(allSegments) ==
  \E i \in DOMAIN allSegments :
    LET qc == RunQualityGate(allSegments[i].segments)
    IN qc.flagged > 0 \/ qc.rejected > 0

\* runPipeline has written pipeline-report.json and returned it
Reported == pc = "mainret" /\ ret.report # Null

\* C23: the report's review_needed is true if and only if the QC of the
\* PDF's exported segments gave at least one flagged or rejected result,
\* on clean runs and on resumed runs alike.
C23_ReviewNeededIffQC ==
  Reported => (ret.report.review_needed <=> QCFlaggedOrRejected(mem.allSegments))

\* ------------------------------------------------------- TextExtractor
\* Confidences are hundredths: 0.6 is 60.
fallbackChain == <<"fast-parse", "ocr-standard", "ocr-enhanced", "manual-review">>

indexOf(arr, x) == CHOOSE i \in DOMAIN arr : arr[i] = x

Thrown == [thrown |-> TRUE]

Extracted(method, confidence) ==
  [thrown |-> FALSE, method |-> method, overall_confidence |-> confidence,
   fallback_triggered |-> FALSE]

\* What each method does on the file: fastParse returns 0.95 or throws,
\* ocrExtract returns the mean page confidence or throws.
MethodOutcomes ==
  { out \in [{"fast-parse", "ocr-standard", "ocr-enhanced"} ->
               {Thrown} \cup {[thrown |-> FALSE, overall_confidence |-> c] :
                                c \in {0, 40, 59, 60, 80, 95}}] :
      ~out["fast-parse"].thrown => out["fast-parse"].overall_confidence = 95 }

\* fastParse / ocrExtract on the file
runMethod(method, out) ==
  IF out[method].thrown THEN Thrown
  ELSE Extracted(method, out[method].overall_confidence)

\* _executeFallback
_executeFallback(method, out) ==
  IF method \in {"fast-parse", "ocr-standard", "ocr-enhanced"}
  THEN runMethod(method, out)
  ELSE [thrown |-> FALSE, method |-> "manual-review", overall_confidence |-> 0,
        requires_human |-> TRUE]

\* extract(filePath, routeDecision): the result (or the error thrown) and
\* the methods run, in order
extract(primaryMethod, out) ==
  IF primaryMethod = "manual-review"
  THEN [result |-> [thrown |-> FALSE, method |-> "manual-review",
                    overall_confidence |-> 0, fallback_triggered |-> FALSE,
                    requires_human |-> TRUE],
        ran |-> <<>>]
  ELSE
    LET first == runMethod(primaryMethod, out)
        nextIdx == indexOf(fallbackChain, primaryMethod) + 1
        nextMethod == fallbackChain[nextIdx]
        fallback == _executeFallback(nextMethod, out)
        triggered == IF fallback.thrown THEN fallback
                     ELSE [fallback_triggered |-> TRUE] @@ fallback
    IN IF first.thrown
       THEN \* catch: the next method of the chain, once
            IF nextIdx <= Len(fallbackChain)
            THEN [result |-> triggered, ran |-> <<primaryMethod, nextMethod>>]
            ELSE [result |-> Thrown, ran |-> <<primaryMethod>>]
       ELSE IF first.overall_confidence < 60
               /\ indexOf(fallbackChain, primaryMethod) < Len(fallbackChain)
       THEN IF fallback.thrown
            THEN \* the fallback threw inside the try: the catch runs it again
                 [result |-> triggered,
                  ran |-> <<primaryMethod, nextMethod, nextMethod>>]
            ELSE [result |-> triggered, ran |-> <<primaryMethod, nextMethod>>]
       ELSE [result |-> first, ran |-> <<primaryMethod>>]

InitExtract ==
  /\ Idle
  /\ \E m \in {fallbackChain[i] : i \in DOMAIN fallbackChain}, out \in MethodOutcomes :
       fn = [kind |-> "extract", method |-> m, out |-> out, called |-> FALSE]

\* extractor.extract(filePath, routeDecision)
ExtractCall ==
  /\ fn.kind = "extract" /\ ~fn.called
  /\ fn' = [fn EXCEPT !.called = TRUE] @@ extract(fn.method, fn.out)
  /\ UNCHANGED <<batchReport, input, disk, pc, mode, exitCode, interrupted, runs, cur,
                 outDir, pdfPath, resumeCheckpoint, mem, ret, pipelineResults,
                 log, execLog>>

NextExtract == ExtractCall

SpecExtract == InitExtract /\ [][NextExtract]_vars

\* the method just run is not accepted: it threw or returned less than 0.6
Rejected(method, out) ==
  method # "manual-review"
    /\ (out[method].thrown \/ out[method].overall_confidence < 60)

\* the first method of the chain, from index i on, that is accepted
RECURSIVE ChainEnd(_, _)
ChainEnd(i, out) ==
  IF Rejected(fallbackChain[i], out) THEN ChainEnd(i + 1, out)
  ELSE fallbackChain[i]

\* C24: extract() follows the chain from the routed method: whenever the
\* method just run throws or returns overall_confidence < 0.6 it advances
\* to the next method, until a method returns >= 0.6 or manual-review is
\* reached; so the result returned comes from the first accepted method.
C24_ChainFollowed ==
  (fn.kind = "extract" /\ fn.called)
    => /\ ~fn.result.thrown
       /\ fn.result.method = ChainEnd(indexOf(fallbackChain, fn.method), fn.out)

\* --------------------------------------------------- hybrid extraction
\* Garbage scores are fractions num/den: detectWordLevelGarbage returns
\* signals / 13, the retry rounds to hundredths.
MaxHybridPages == 1

Frac(num, den) == [num |-> num, den |-> den]
FracLess(a, b) == a.num * b.den < b.num * a.den
\* a < n/10 and a > n/10
BelowTenths(a, n) == 10 * a.num < n * a.den
AboveTenths(a, n) == 10 * a.num > n * a.den
\* Math.round(x * 100) / 100
Round2(a) == Frac((200 * a.num + a.den) \div (2 * a.den), 100)

\* A page text: nothing, or at least 30 characters with the number of
\* garbage signals (of 13) the profiler counts in it.
NoText == [some |-> FALSE, signals |-> 0]
SomeText(k) == [some |-> TRUE, signals |-> k]

\* QualityProfiler.detectWordLevelGarbage
detectWordLevelGarbage(text) ==
  IF ~text.some THEN Frac(0, 13) ELSE Frac(text.signals, 13)

OcrFailed(pageNum) ==
  [page_number |-> pageNum, text |-> NoText, confidence |-> 0,
   method |-> "ocr-failed", empty |-> TRUE, word_garbage_score |-> Null]

\* _ocrSinglePage(filePath, pageNum, false)
_ocrSinglePage(pageNum, text) ==
  IF ~text.some THEN OcrFailed(pageNum)
  ELSE [page_number |-> pageNum, text |-> text, confidence |-> 85,
        method |-> "ocr-standard", empty |-> FALSE, word_garbage_score |-> Null]

\* _ocrSinglePageRotated(filePath, pageNum, false, degrees)
_ocrSinglePageRotated(pageNum, text) ==
  IF ~text.some THEN OcrFailed(pageNum)
  ELSE [page_number |-> pageNum, text |-> text, confidence |-> 80,
        method |-> "ocr-rotated", empty |-> FALSE, word_garbage_score |-> Null]

\* the loop over 180, 90, 270 degrees
RECURSIVE rotationLoop(_, _, _, _, _)
rotationLoop(i, rotations, pageNum, bestResult, bestGarbage) ==
  IF i > Len(rotations) THEN [result |-> bestResult, garbage |-> bestGarbage]
  ELSE LET rotated == _ocrSinglePageRotated(pageNum, rotations[i])
           rotGarbage == detectWordLevelGarbage(rotated.text)
           better == ~rotated.empty /\ FracLess(rotGarbage, bestGarbage)
           r == IF better THEN rotated ELSE bestResult
           g == IF better THEN rotGarbage ELSE bestGarbage
       IN IF rotated.empty THEN rotationLoop(i + 1, rotations, pageNum, bestResult, bestGarbage)
          ELSE IF BelowTenths(g, 2) THEN [result |-> r, garbage |-> g]
          ELSE rotationLoop(i + 1, rotations, pageNum, r, g)

\* _ocrSinglePageWithRetry
_ocrSinglePageWithRetry(pageNum, ocr) ==
  LET result == _ocrSinglePage(pageNum, ocr.first)
      garbageScore == detectWordLevelGarbage(result.text)
      best == rotationLoop(1, ocr.rotations, pageNum, result, garbageScore)
  IN IF result.empty THEN result
     ELSE IF BelowTenths(garbageScore, 4) THEN result
     ELSE [best.result EXCEPT !.word_garbage_score = Round2(best.garbage)]

\* the merge of one fast-parse page with its OCR result, if any
mergePage(fp, needsOcr, ocr) ==
  LET ocrPage == _ocrSinglePageWithRetry(fp.page_number, ocr)
      ocrGarbage == IF ocrPage.word_garbage_score # Null
                    THEN ocrPage.word_garbage_score
                    ELSE detectWordLevelGarbage(ocrPage.text)
      fpGarbage == detectWordLevelGarbage(fp.text)
  IN IF needsOcr /\ ocrPage.text.some
     THEN IF FracLess(ocrGarbage, fpGarbage)
          THEN [page_number |-> fp.page_number, text |-> ocrPage.text,
                confidence |-> IF AboveTenths(ocrGarbage, 3) THEN 40
                               ELSE ocrPage.confidence,
                method |-> ocrPage.method, empty |-> ocrPage.empty,
                ocr_replaced |-> TRUE, word_garbage_score |-> Round2(ocrGarbage)]
          ELSE [page_number |-> fp.page_number, text |-> fp.text,
                confidence |-> IF AboveTenths(fpGarbage, 3) THEN 40
                               ELSE fp.confidence,
                method |-> "fast-parse", empty |-> fp.empty,
                ocr_replaced |-> FALSE, word_garbage_score |-> Round2(fpGarbage)]
     ELSE [page_number |-> fp.page_number, text |-> fp.text,
           confidence |-> fp.confidence, method |-> "fast-parse",
           empty |-> fp.empty, ocr_replaced |-> FALSE,
           word_garbage_score |-> Null]

\* extractHybrid(filePath, fastParsePages, pageRoutes)
extractHybrid(fastParsePages, pageRoutes, ocr) ==
  IF \A i \in DOMAIN pageRoutes : ~pageRoutes[i].needs_ocr
  THEN [method |-> "fast-parse", pages |-> fastParsePages]
  ELSE [method |-> "hybrid",
        pages |-> [i \in DOMAIN fastParsePages |->
                     mergePage(fastParsePages[i], pageRoutes[i].needs_ocr, ocr[i])]]

\* fastParsePerPage: a page of pdftotext output
FastPages ==
  { [page_number |-> n, text |-> SomeText(k), confidence |-> 95, empty |-> FALSE] :
      n \in 1..MaxHybridPages, k \in {0, 4, 6} }

\* what tesseract reads on a page, upright and rotated
OcrReadings ==
  { o \in [first : {NoText, SomeText(0), SomeText(4), SomeText(6)},
           rotations : [1..3 -> {NoText, SomeText(3), SomeText(5)}]] :
      \* the rotations are read only when the first reading is >= 0.4
      BelowTenths(detectWordLevelGarbage(o.first), 4)
        => \A i \in 1..3 : o.rotations[i] = NoText }

HybridInputs ==
  UNION { { h \in [pages : [1..n -> FastPages], needs_ocr : [1..n -> BOOLEAN],
                   ocr : [1..n -> OcrReadings]] :
              \A i \in 1..n :
                /\ h.pages[i].page_number = i
                /\ ~h.needs_ocr[i] => h.ocr[i].first = NoText }
          : n \in 1..MaxHybridPages }

InitHybrid ==
  /\ Idle
  /\ \E h \in HybridInputs : fn = [kind |-> "hybrid", arg |-> h, called |-> FALSE]

\* extractor.extractHybrid(pdfPath, fpExtracted.pages, pageRoutes)
HybridCall ==
  /\ fn.kind = "hybrid" /\ ~fn.called
  /\ fn' = [fn EXCEPT !.called = TRUE] @@
           [result |-> extractHybrid(fn.arg.pages,
                                     [i \in DOMAIN fn.arg.pages |->
                                        [page |-> i, needs_ocr |-> fn.arg.needs_ocr[i]]],
                                     fn.arg.ocr)]
  /\ UNCHANGED <<batchReport, input, disk, pc, mode, exitCode, interrupted, runs, cur,
                 outDir, pdfPath, resumeCheckpoint, mem, ret, pipelineResults,
                 log, execLog>>

NextHybrid == HybridCall

SpecHybrid == InitHybrid /\ [][NextHybrid]_vars

\* C25: in a hybrid result every page that was flagged needs_ocr and whose
\* kept text still has a garbage score above 0.3 has confidence 0.4.
C25_GarbageClamped ==
  (fn.kind = "hybrid" /\ fn.called /\ fn.result.method = "hybrid")
    => \A i \in DOMAIN fn.result.pages :
         (/\ fn.arg.needs_ocr[i]
          /\ AboveTenths(detectWordLevelGarbage(fn.result.pages[i].text), 3))
           => fn.result.pages[i].confidence = 40

\* ------------------------------------------------- DocumentClassifier
\* Confidences are hundredths.  A rule is its patterns in the order of the
\* rule table, each with its place in the disambiguation table:
\* "structural", "entity" (entityOnly) or "other".  implies holds the pairs
\* <<i, j>> where a text matching pattern i matches pattern j as well, and
\* entityLike the patterns whose source an entityOnly regex matches
\* (e.test(m.source)).
DisambiguatedRules ==
  { [type |-> "acordao", weight |-> 90,
     kinds |-> <<"structural", "entity", "structural", "entity">>,
     implies |-> {}, entityLike |-> {}],
    [type |-> "acordao-trf", weight |-> 90,
     kinds |-> <<"structural", "structural", "entity", "entity">>,
     implies |-> {}, entityLike |-> {}],
    [type |-> "acordao-carf", weight |-> 90,
     kinds |-> <<"structural", "entity", "structural", "entity">>,
     implies |-> {}, entityLike |-> {}],
    [type |-> "acordao-csrf", weight |-> 90,
     kinds |-> <<"structural", "structural", "other", "other">>,
     implies |-> {}, entityLike |-> {}],
    [type |-> "agravo", weight |-> 80,
     kinds |-> <<"entity", "entity", "structural", "structural">>,
     implies |-> {<<3, 1>>}, entityLike |-> {3}],
    [type |-> "recurso-carf", weight |-> 85,
     kinds |-> <<"entity", "structural", "structural", "other">>,
     implies |-> {}, entityLike |-> {}],
    [type |-> "resposta-fazenda", weight |-> 80,
     kinds |-> <<"entity", "entity", "structural", "structural">>,
     implies |-> {}, entityLike |-> {}],
    [type |-> "recurso-admin", weight |-> 85,
     kinds |-> <<"structural", "structural", "entity">>,
     implies |-> {}, entityLike |-> {}],
    [type |-> "parecer-pgfn", weight |-> 85,
     kinds |-> <<"entity", "structural", "structural">>,
     implies |-> {<<3, 1>>}, entityLike |-> {3}],
    [type |-> "parecer-agu", weight |-> 85,
     kinds |-> <<"entity", "structural", "structural">>,
     implies |-> {<<3, 1>>}, entityLike |-> {3}],
    [type |-> "distribuicao", weight |-> 75,
     kinds |-> <<"entity", "structural", "entity", "entity">>,
     implies |-> {<<2, 1>>}, entityLike |-> {}] }

specificityOrder ==
  <<"inicial-eef", "inicial-execfiscal", "inicial-ms",
    "acordao-carf", "acordao-csrf", "acordao-trf",
    "sentenca-edcl", "recurso-carf",
    "impugnacao-admin", "defesa-admin", "decisao-admin-1inst",
    "parecer-pgfn", "parecer-agu",
    "lixo-procuracao", "lixo-substabelecimento", "lixo-societario",
    "lixo-fianca", "lixo-capa", "lixo-certidao-publicacao",
    "lixo-ato-ordinatorio", "lixo-termo-abertura", "certidao-publicacao">>

Min(a, b) == IF a < b THEN a ELSE b

\* Math.round(confidence * 100) / 100 on bodyRatio * weight + headingBoost
\* + tailBoost.  The sum is exact in hundredths over the denominator n; on
\* a tie the double the code computes lies just below one half for the
\* operands <<2 * body term, headingBoost, tailBoost>> listed here.
DoubleTiesDown == {<<45, 15, 20>>, <<75, 0, 20>>, <<85, 15, 0>>, <<85, 15, 20>>}

roundConfidence(b, n, weight, headingBoost, tailBoost) ==
  LET num == b * weight + n * (headingBoost + tailBoost)
      tie == (2 * num) % (2 * n) = n
  IN IF num >= 100 * n THEN 100
     ELSE IF tie /\ <<(2 * b * weight) \div n, headingBoost, tailBoost>> \in DoubleTiesDown
     THEN num \div n
     ELSE (2 * num + n) \div (2 * n)

\* Math.round(score.confidence * 0.7 * 100) / 100; the doubles for 0.35,
\* 0.65, 0.75 and 0.95 fall just below the tie
structuralPenalty(confidence) ==
  IF confidence \in {35, 65, 75, 95} THEN (confidence * 70) \div 100
  ELSE (confidence * 70 + 50) \div 100

\* the weaker penalty in the place of the entity-only one
entityOnlyPenaltyMild(confidence) == structuralPenalty(confidence)

\* Math.round(score.confidence * 0.3 * 100) / 100; the doubles for 0.75 and
\* 0.95 fall just below the tie
entityOnlyPenalty(confidence) ==
  IF confidence \in {75, 95} THEN (confidence * 30) \div 100
  ELSE (confidence * 30 + 50) \div 100

\* Math.round(Math.min(1, score.confidence + 0.05) * 100) / 100
specificityBonus(type, confidence) ==
  IF \E i \in DOMAIN specificityOrder : specificityOrder[i] = type
  THEN Min(100, confidence + 5)
  ELSE confidence

\* classify: the score of one rule of the disambiguation table on a text
\* whose body, heading and tail match the patterns body, heading and tail
scoreRule(rule, bodyM, headingM, tailM) ==
  LET n == Len(rule.kinds)
      headingBoost == Min(30, Cardinality(headingM) * 15)
      tailBoost == Min(20, Cardinality(tailM) * 10)
      pre == roundConfidence(Cardinality(bodyM), n, rule.weight,
                             headingBoost, tailBoost)
      hasStructuralInHeading == \E i \in headingM : rule.kinds[i] = "structural"
      hasStructuralInBody == \E i \in bodyM : rule.kinds[i] = "structural"
      allMatchesAreEntityOnly ==
        /\ \E i \in DOMAIN rule.kinds : rule.kinds[i] = "entity"
        /\ \A i \in bodyM : rule.kinds[i] = "entity" \/ i \in rule.entityLike
      disambiguation ==
        IF hasStructuralInHeading THEN "none"
        ELSE IF allMatchesAreEntityOnly /\ ~hasStructuralInBody
        THEN "entity-mention-only"
        ELSE IF hasStructuralInBody THEN "structural-not-in-heading"
        ELSE "none"
      penalized ==
        IF disambiguation = "entity-mention-only" THEN entityOnlyPenalty(pre)
        ELSE IF disambiguation = "structural-not-in-heading"
        THEN structuralPenalty(pre)
        ELSE pre
  IN [type |-> rule.type, pre |-> pre, disambiguation |-> disambiguation,
      confidence |-> specificityBonus(rule.type, penalized)]

\* a rule and the patterns a text of 50 characters or more matches: the
\* heading and the tail are lines of the text
ClassifyInputs ==
  UNION { UNION { { c \in [rule : {r}, body : {b}, heading : SUBSET b, tail : SUBSET b] :
                      \A pr \in r.implies :
                        /\ pr[1] \in c.body => pr[2] \in c.body
                        /\ pr[1] \in c.heading => pr[2] \in c.heading
                        /\ pr[1] \in c.tail => pr[2] \in c.tail } :
                  b \in (SUBSET DOMAIN r.kinds) \ {{}} } :
          r \in DisambiguatedRules }

InitClassify ==
  /\ Idle
  /\ \E c \in ClassifyInputs : fn = [kind |-> "classify", arg |-> c, called |-> FALSE]

\* classifier.classify(text, opts), the score of the rule
ClassifyCall ==
  /\ fn.kind = "classify" /\ ~fn.called
  /\ fn' = [fn EXCEPT !.called = TRUE] @@
           [score |-> scoreRule(fn.arg.rule, fn.arg.body, fn.arg.heading, fn.arg.tail)]
  /\ UNCHANGED <<batchReport, input, disk, pc, mode, exitCode, interrupted, runs, cur,
                 outDir, pdfPath, resumeCheckpoint, mem, ret, pipelineResults,
                 log, execLog>>

NextClassify == ClassifyCall

SpecClassify == InitClassify /\ [][NextClassify]_vars

\* the rule matched entity mentions only, no structural pattern in the text
EntityOnlyScored ==
  /\ fn.kind = "classify" /\ fn.called
  /\ \A i \in fn.arg.body : fn.arg.rule.kinds[i] = "entity"

\* C26 as stated: the confidence finally reported for an entity-only rule
\* is at most 0.30 times its pre-penalty confidence.
C26_Original ==
  EntityOnlyScored => 10 * fn.score.confidence <= 3 * fn.score.pre

\* C26 amended: the confidence finally reported for an entity-only rule is
\* at most 0.30 times its pre-penalty confidence rounded to hundredths,
\* plus the 0.05 specificity bonus when its type is in the specificity
\* list.
C26_Amended ==
  EntityOnlyScored =>
    LET specific == \E i \in DOMAIN specificityOrder :
                      specificityOrder[i] = fn.arg.rule.type
    IN /\ fn.score.disambiguation = "entity-mention-only"
       /\ 100 * fn.score.confidence
            <= 30 * fn.score.pre + 50 + (IF specific THEN 500 ELSE 0)
       /\ fn.score.confidence <= (IF specific THEN 35 ELSE 30)

\* acordao-trf on 'trf' and 'turma' alone: 0.45 before, 0.19 reported
C26_Witness ==
  /\ EntityOnlyScored
  /\ fn.arg.rule.type = "acordao-trf"
  /\ fn.score.pre = 45
  /\ fn.score.confidence = 19

\* C27: L2 reclassification is idempotent: applied twice in succession to
\* the same segment array it leaves every segment with the doc_type and
\* the confidence that one application leaves.
C27_L2Idempotent ==
  (fn.kind = "stages" /\ fn.applied = 2)
    => \A j \in DOMAIN fn.segments :
         /\ fn.segments[j].doc_type = fn.once[j].doc_type
         /\ fn.segments[j].classification_confidence
              = fn.once[j].classification_confidence

\* ------------------------------------------------------ profilePages
MaxProfilePages == 3

\* What the profiler measures on a page: the readability score, the noise
\* level and the garbage signals (of 13) of its text; an empty page has
\* fewer than 50 characters.
ProfiledPages ==
  { pg \in [empty : BOOLEAN, readability : {50, 90},
            noise : {"low", "medium", "high"}, signals : {0, 2}] :
      pg.empty => (pg.readability = 50 /\ pg.noise = "low" /\ pg.signals = 0) }

\* the is_degraded flag of one page, before propagation
isDegraded(page) ==
  \/ page.readability < 60
  \/ page.noise = "high" \/ page.noise = "medium"
  \/ ~FracLess(Frac(page.signals, 13), Frac(15, 100))
  \/ page.empty

\* profilePages(pages): is_degraded, empty and propagated of every profile
profilePages(pages) ==
  LET profiles == [i \in DOMAIN pages |->
                     [page_number |-> i, is_degraded |-> isDegraded(pages[i]),
                      empty |-> pages[i].empty, propagated |-> "undefined"]]
      nonEmpty == {i \in DOMAIN profiles : ~profiles[i].empty}
      degradedCount == Cardinality({i \in nonEmpty : profiles[i].is_degraded})
  IN IF Cardinality(nonEmpty) > 0 /\ 2 * degradedCount > Cardinality(nonEmpty)
     THEN [i \in DOMAIN profiles |->
             IF ~profiles[i].empty
             THEN [profiles[i] EXCEPT
                     !.is_degraded = TRUE,
                     !.propagated = IF degradedCount < Cardinality(nonEmpty)
                                    THEN "true" ELSE "false"]
             ELSE profiles[i]]
     ELSE profiles

InitProfile ==
  /\ Idle
  /\ \E n \in 1..MaxProfilePages : \E pages \in [1..n -> ProfiledPages] :
       fn = [kind |-> "profile", arg |-> pages, called |-> FALSE]

\* profiler.profilePages(pages)
ProfileCall ==
  /\ fn.kind = "profile" /\ ~fn.called
  /\ fn' = [fn EXCEPT !.called = TRUE] @@ [profiles |-> profilePages(fn.arg)]
  /\ UNCHANGED <<batchReport, input, disk, pc, mode, exitCode, interrupted, runs, cur,
                 outDir, pdfPath, resumeCheckpoint, mem, ret, pipelineResults,
                 log, execLog>>

NextProfile == ProfileCall

SpecProfile == InitProfile /\ [][NextProfile]_vars

\* the non-empty pages of the call and those degraded on their own
NonEmptyPages == {i \in DOMAIN fn.arg : ~fn.arg[i].empty}
DegradedPages == {i \in NonEmptyPages : isDegraded(fn.arg[i])}

\* C28: if at least 50% of the non-empty pages are degraded, every
\* non-empty page is marked is_degraded, and propagated = true is set on
\* exactly the pages that were clean before the propagation.
C28_Propagation ==
  (/\ fn.kind = "profile" /\ fn.called
   /\ NonEmptyPages # {}
   /\ 2 * Cardinality(DegradedPages) >= Cardinality(NonEmptyPages))
    => \A i \in NonEmptyPages :
         /\ fn.profiles[i].is_degraded
         /\ fn.profiles[i].propagated = "true" <=> i \notin DegradedPages

\* ------------------------------------------- paragraph continuation
\* page p carries a non-blank marker of weight 0.7 or more
WouldBeBoundary(p) ==
  \E i \in DOMAIN detectBoundaries(SegPages[p]) :
    /\ detectBoundaries(SegPages[p])[i].weight >= 70
    /\ detectBoundaries(SegPages[p])[i].rule # "blank-page"

\* page p carries a marker of weight 0.85 or more
StrongMarker(p) ==
  \E i \in DOMAIN detectBoundaries(SegPages[p]) :
    detectBoundaries(SegPages[p])[i].weight >= 85

\* a returned segment starts on page p
OpensSegment(p) == \E j \in DOMAIN fn.segments : fn.segments[j].page_start = p

\* the numbering runs on from page p - 1 to page p
ParagraphContinues(p) ==
  /\ p > 1
  /\ SegPages[p - 1].lastParaNum # Null
  /\ SegPages[p].firstParaNum # Null
  /\ SegPages[p].firstParaNum.n = SegPages[p - 1].lastParaNum.n + 1

\* C29: a would-be boundary on page p is suppressed exactly when page
\* p-1 ends with paragraph K, page p starts with paragraph K+1 and every
\* marker on page p weighs less than 0.85; a page with a marker of 0.85 or
\* more always opens a new segment.
C29_SuppressedExactlyWhen ==
  SegDone =>
    \A p \in DOMAIN SegPages :
      /\ WouldBeBoundary(p)
           => (~OpensSegment(p) <=> (ParagraphContinues(p) /\ ~StrongMarker(p)))
      /\ StrongMarker(p) => OpensSegment(p)

\* ------------------------------------------ outputs of completed stages
\* the per-file output files of each stage, by their place in the output
\* directory
StageOutputs(k) ==
  CASE k = 1 -> {"manifest"}
    [] k = 2 -> {"profile", "classification"}
    [] k = 3 -> {"route", "pageRoutes"}
    [] k = 4 -> {"extracted"}
    [] k = 5 -> {"segments"}
    [] k = 6 -> {"markdown"}

\* C30: whenever the on-disk checkpoint lists a stage as completed, that
\* stage's per-file output files are written and none of them is
\* rewritten afterwards: no step of the run that completed or reloaded
\* the stage changes them.
C30_CompletedOutputsStable ==
  [][LET ckpt == loadCheckpoint(disk[outDir].ckptFile)
     IN (ckpt # Null /\ outDir' = outDir /\ runs' = runs) =>
          \A k \in 1..6 :
            (Has(ckpt.completed_stages, k) /\ Has(mem.completedStages, k)) =>
              \A f \in StageOutputs(k) : disk'[outDir][f] = disk[outDir][f]]_vars

====
